---- MODULE Spec2Model ----
(***************************************************************************)
(* A model of vin (src/vin.cpp), a modal terminal text editor.             *)
(*                                                                         *)
(* Characters are bytes 0..255, strings are sequences of bytes.  The       *)
(* global `struct editorConfig E` is the record variable E; every          *)
(* function of the source that mutates E is an operator from E to the new  *)
(* E, composed in the order the source calls them.  C indices are 0-based, *)
(* TLA+ sequences 1-based: s[i] of the source is s[i+1] here.              *)
(***************************************************************************)
EXTENDS Integers, Sequences, FiniteSets, TLC

\* E: struct editorConfig E.  pc: where main is, "render" before
\* editorRefreshScreen, "key" blocked in editorProcessKeypress's read, "exit"
\* after exit(0).  lastKey: <<c, m>> for the key c the keypress just handled
\* and the mode m it was handled in, <<>> once the screen is refreshed (a
\* history variable).  stdin: the bytes typed ahead and not yet read from
\* STDIN_FILENO.  saved: the raw rows as the most recent load or successful
\* save left them (a history variable, recorded by SpecSave only).
VARIABLES E, pc, lastKey, stdin, saved

vars == <<E, pc, lastKey, stdin, saved>>

(***************************************************************************)
(* Bounds of the model (the program has none of them).                     *)
(***************************************************************************)
MaxRows == 2    \* rows in the buffer
MaxChars == 2   \* raw characters in the whole buffer
MaxCmd == 2     \* characters in the command accumulator
MaxRowLen == 4  \* characters of a row rendered on its own
MaxPageRows == 4  \* rows of a file paged through

(***************************************************************************)
(* Program constants.                                                      *)
(***************************************************************************)
TAB_STOP == 4
BACKSPACE == 127
ARROW_LEFT == 1000
ARROW_RIGHT == 1001
ARROW_UP == 1002
ARROW_DOWN == 1003
PAGE_UP == 1004
PAGE_DOWN == 1005
HOME_KEY == 1006
END_KEY == 1007
DEL_KEY == 1008

HIGHLIGHT_NORMAL == 0
HIGHLIGHT_KEYWORD1 == 1
HIGHLIGHT_KEYWORD2 == 2
HIGHLIGHT_COMMENT == 3
HIGHLIGHT_STRING == 4
HIGHLIGHT_NUMBER == 5

HL_HIGHLIGHT_NUMBERS == 1
HL_HIGHLIGHT_STRINGS == 2

STATUS_BUF == 80   \* char buf[80] of editorSetStatusMessage
WS_CHROME == 2     \* screen lines kept for the status bar and the command bar

\* character literals of the source
NUL == 0
CH_TAB == 9
CH_LF == 10
CH_CR == 13
ESC == 27
CH_SPACE == 32
CH_BANG == 33
CH_DQUOTE == 34
CH_DOLLAR == 36
CH_PERCENT == 37
CH_SQUOTE == 39
CH_DOT == 46
CH_0 == 48
CH_1 == 49
CH_3 == 51
CH_4 == 52
CH_5 == 53
CH_6 == 54
CH_7 == 55
CH_8 == 56
CH_9 == 57
CH_COLON == 58
CH_A == 65
CH_B == 66
CH_C == 67
CH_D == 68
CH_F == 70
CH_G == 71
CH_H == 72
CH_O == 79
CH_LBRACKET == 91
CH_BACKSLASH == 92
CH_d == 100
CH_h == 104
CH_i == 105
CH_j == 106
CH_k == 107
CH_l == 108
CH_q == 113
CH_s == 115
CH_w == 119
CH_BAR == 124
CH_TILDE == 126

\* CTRL_KEY(k) ((k)&0b00011111)
CTRL_KEY(k) == k % 32

\* (char)c of an int, kept as the byte 0..255 it stores
ToByte(c) == c % 256

\* a char read back as an int: char is signed on the platforms the editor
\* builds on (termios, x86-64), so bytes 128..255 are negative key values
CharToInt(b) == IF b >= 128 THEN b - 256 ELSE b

Min(a, b) == IF a < b THEN a ELSE b

Take(s, n) == SubSeq(s, 1, Min(n, Len(s)))

\* the C string a char* points at: the bytes before the first NUL
CStr(s) ==
    IF \E k \in 1..Len(s) : s[k] = NUL
    THEN SubSeq(s, 1, (CHOOSE k \in 1..Len(s) :
                          s[k] = NUL /\ \A m \in 1..(k - 1) : s[m] # NUL) - 1)
    ELSE s

\* s[i] of a NUL-terminated buffer, i 0-based, Len(s) being the terminator
CharAt(s, i) == IF i >= 0 /\ i < Len(s) THEN s[i + 1] ELSE NUL

\* !strncmp(s.data() + i, k.data(), n) for a k without NUL in its first n
\* bytes: the comparison stops at the first difference, so it never runs
\* past the terminator of s
StrNCmpEq(s, i, k, n) == \A m \in 0..(n - 1) : CharAt(s, i + m) = k[m + 1]

\* %d of a non-negative or negative int
RECURSIVE Digits(_)
Digits(n) == IF n < 10 THEN <<CH_0 + n>> ELSE Digits(n \div 10) \o <<CH_0 + (n % 10)>>

IntToStr(n) == IF n < 0 THEN <<45>> \o Digits(0 - n) ELSE Digits(n)

(***************************************************************************)
(* Key decoding.  The bytes the terminal has sent before the next read     *)
(* timeout are the sequence b; a read past its end times out.              *)
(***************************************************************************)
\* read(STDIN_FILENO, &x, 1) == 1 for the n-th byte of the burst
\* editorReadKey knowing only the VT220 numbers 1, 3, 4, 5 and 6
editorReadKey_Vt220Only(b) ==
    IF b[1] # ESC THEN b[1]
    ELSE IF Len(b) < 3 THEN ESC
    ELSE IF b[2] = CH_LBRACKET THEN
        IF b[3] >= CH_0 /\ b[3] <= CH_9 THEN
            IF Len(b) < 4 \/ b[4] # CH_TILDE THEN ESC
            ELSE CASE b[3] = CH_1 -> HOME_KEY
                   [] b[3] = CH_3 -> DEL_KEY
                   [] b[3] = CH_4 -> END_KEY
                   [] b[3] = CH_5 -> PAGE_UP
                   [] b[3] = CH_6 -> PAGE_DOWN
                   [] OTHER -> ESC
        ELSE CASE b[3] = CH_A -> ARROW_UP
               [] b[3] = CH_B -> ARROW_DOWN
               [] b[3] = CH_C -> ARROW_RIGHT
               [] b[3] = CH_D -> ARROW_LEFT
               [] b[3] = CH_H -> HOME_KEY
               [] b[3] = CH_F -> END_KEY
               [] OTHER -> ESC
    ELSE IF b[2] = CH_O THEN
        CASE b[3] = CH_H -> HOME_KEY
          [] b[3] = CH_F -> END_KEY
          [] OTHER -> ESC
    ELSE ESC

ReadOk(b, n) == n <= Len(b)

editorReadKey(b) ==
    LET c == b[1] IN
    IF c = ESC THEN
        IF ~ReadOk(b, 2) THEN ESC
        ELSE IF ~ReadOk(b, 3) THEN ESC
        ELSE IF b[2] = CH_LBRACKET THEN
            IF b[3] >= CH_0 /\ b[3] <= CH_9 THEN
                IF ~ReadOk(b, 4) THEN ESC
                ELSE IF b[4] = CH_TILDE THEN
                    CASE b[3] = CH_1 -> HOME_KEY
                      [] b[3] = CH_3 -> DEL_KEY
                      [] b[3] = CH_4 -> END_KEY
                      [] b[3] = CH_5 -> PAGE_UP
                      [] b[3] = CH_6 -> PAGE_DOWN
                      [] b[3] = CH_7 -> HOME_KEY
                      [] b[3] = CH_8 -> END_KEY
                      [] OTHER -> ESC
                ELSE ESC
            ELSE
                CASE b[3] = CH_A -> ARROW_UP
                  [] b[3] = CH_B -> ARROW_DOWN
                  [] b[3] = CH_C -> ARROW_RIGHT
                  [] b[3] = CH_D -> ARROW_LEFT
                  [] b[3] = CH_H -> HOME_KEY
                  [] b[3] = CH_F -> END_KEY
                  [] OTHER -> ESC
        ELSE IF b[2] = CH_O THEN
            CASE b[3] = CH_H -> HOME_KEY
              [] b[3] = CH_F -> END_KEY
              [] OTHER -> ESC
        ELSE ESC
    ELSE CharToInt(c)

\* how many bytes of the burst one call of editorReadKey reads
editorReadKeyUsed(b) ==
    IF b[1] # ESC THEN 1
    ELSE IF Len(b) >= 3 /\ b[2] = CH_LBRACKET /\ b[3] >= CH_0 /\ b[3] <= CH_9
         THEN Min(Len(b), 4)
    ELSE Min(Len(b), 3)

(***************************************************************************)
(* Status message: vsnprintf into char buf[80], then E.command_bar = buf.  *)
(* args is the sequence of variadic arguments, [t |-> "int", v |-> n] or   *)
(* [t |-> "str", v |-> s].  A conversion the arguments do not cover, or    *)
(* one that is not %d, %s or %%, is undefined: the output from there on is *)
(* ub, whatever the build produces.                                        *)
(***************************************************************************)
RECURSIVE vformat(_, _, _, _)
vformat(fmt, i, args, ub) ==
    IF i > Len(fmt) THEN <<>>
    ELSE IF fmt[i] # CH_PERCENT THEN <<fmt[i]>> \o vformat(fmt, i + 1, args, ub)
    ELSE IF i < Len(fmt) /\ fmt[i + 1] = CH_PERCENT
         THEN <<CH_PERCENT>> \o vformat(fmt, i + 2, args, ub)
    ELSE IF i < Len(fmt) /\ fmt[i + 1] = CH_d /\ args # <<>> /\ args[1].t = "int"
         THEN IntToStr(args[1].v) \o vformat(fmt, i + 2, Tail(args), ub)
    ELSE IF i < Len(fmt) /\ fmt[i + 1] = CH_s /\ args # <<>> /\ args[1].t = "str"
         THEN CStr(args[1].v) \o vformat(fmt, i + 2, Tail(args), ub)
    ELSE ub

editorSetStatusMessage(e, fmt, args, ub) ==
    [e EXCEPT !.command_bar =
        CStr(Take(vformat(CStr(fmt), 1, args, ub), STATUS_BUF - 1))]

(***************************************************************************)
(* Syntax database.  E.syntax is 0 for the default editorSyntax{} (no      *)
(* filetype) and j for HLDB[j-1].                                          *)
(***************************************************************************)
C_HL_extensions == << <<46, 99>>, <<46, 104>>, <<46, 99, 112, 112>> >>   \* ".c", ".h", ".cpp"

C_HL_keywords == <<
      <<115, 119, 105, 116, 99, 104>>,            \* "switch"
      <<105, 102>>,                               \* "if"
      <<119, 104, 105, 108, 101>>,                \* "while"
      <<102, 111, 114>>,                          \* "for"
      <<98, 114, 101, 97, 107>>,                  \* "break"
      <<99, 111, 110, 116, 105, 110, 117, 101>>,  \* "continue"
      <<114, 101, 116, 117, 114, 110>>,           \* "return"
      <<101, 108, 115, 101>>,                     \* "else"
      <<115, 116, 114, 117, 99, 116>>,            \* "struct"
      <<117, 110, 105, 111, 110>>,                \* "union"
      <<116, 121, 112, 101, 100, 101, 102>>,      \* "typedef"
      <<115, 116, 97, 116, 105, 99>>,             \* "static"
      <<101, 110, 117, 109>>,                     \* "enum"
      <<99, 108, 97, 115, 115>>,                  \* "class"
      <<99, 97, 115, 101>>,                       \* "case"
      <<105, 110, 116, 124>>,                     \* "int|"
      <<108, 111, 110, 103, 124>>,                \* "long|"
      <<100, 111, 117, 98, 108, 101, 124>>,       \* "double|"
      <<102, 108, 111, 97, 116, 124>>,            \* "float|"
      <<99, 104, 97, 114, 124>>,                  \* "char|"
      <<117, 110, 115, 105, 103, 110, 101, 100, 124>>,  \* "unsigned|"
      <<115, 105, 103, 110, 101, 100, 124>>,      \* "signed|"
      <<118, 111, 105, 100, 124>> >>              \* "void|"

NoSyntax ==
    [filetype |-> <<>>, filematch |-> <<>>, keywords |-> <<>>,
     singleline_comment_start |-> <<>>, flags |-> 0]

HLDB == <<
    [filetype |-> <<99>>,                         \* "c"
     filematch |-> C_HL_extensions,
     keywords |-> C_HL_keywords,
     singleline_comment_start |-> <<47, 47>>,     \* "//"
     flags |-> HL_HIGHLIGHT_NUMBERS + HL_HIGHLIGHT_STRINGS] >>

SyntaxOf(j) == IF j = 0 THEN NoSyntax ELSE HLDB[j]

\* flags & bit, for the two one-bit flags
HasFlag(flags, bit) == (flags \div bit) % 2 = 1

Separators == {44, 46, 40, 41, 43, 45, 47, 42, 61, 126, 37, 60, 62, 91, 93, 59}   \* ,.()+-/*=~%<>[];

isspace(c) == c \in {9, 10, 11, 12, 13, 32}

isdigit(c) == c >= CH_0 /\ c <= CH_9

is_separator(c) == isspace(c) \/ c = NUL \/ c \in Separators

\* memset(hl.data() + i, v, n)
MemSet(hl, i, v, n) ==
    [m \in 1..Len(hl) |-> IF m >= i + 1 /\ m <= i + n THEN v ELSE hl[m]]

\* KeywordAt comparing the keyword's characters only, whatever follows them
RECURSIVE KeywordAt_NoBoundary(_, _, _, _)
KeywordAt_NoBoundary(r, i, kws, j) ==
    IF j > Len(kws) THEN 0
    ELSE LET keyword == kws[j]
             kw2 == keyword[Len(keyword)] = CH_BAR
             klen == IF kw2 THEN Len(keyword) - 1 ELSE Len(keyword)
         IN IF StrNCmpEq(r, i, keyword, klen)
            THEN j
            ELSE KeywordAt_NoBoundary(r, i, kws, j + 1)

\* the first keyword of kws, from index j on, that matches at position i
RECURSIVE KeywordAt(_, _, _, _)
KeywordAt(r, i, kws, j) ==
    IF j > Len(kws) THEN 0
    ELSE LET keyword == kws[j]
             kw2 == keyword[Len(keyword)] = CH_BAR
             klen == IF kw2 THEN Len(keyword) - 1 ELSE Len(keyword)
         IN IF StrNCmpEq(r, i, keyword, klen) /\ is_separator(CharAt(r, i + klen))
            THEN j
            ELSE KeywordAt(r, i, kws, j + 1)

\* the while loop of editorUpdateSyntax
RECURSIVE SyntaxScan(_, _, _, _, _, _)
SyntaxScan(r, syn, i, hl, prev_sep, in_string) ==
    IF i >= Len(r) THEN hl
    ELSE
    LET c == r[i + 1]
        prev_hl == IF i > 0 THEN hl[i] ELSE HIGHLIGHT_NORMAL
        scs == syn.singleline_comment_start
    IN
    IF Len(scs) # 0 /\ in_string = 0 /\ StrNCmpEq(r, i, scs, Len(scs))
    THEN MemSet(hl, i, HIGHLIGHT_COMMENT, Len(r) - i)
    ELSE IF HasFlag(syn.flags, HL_HIGHLIGHT_STRINGS) /\ in_string # 0
    THEN IF c = CH_BACKSLASH /\ i + 1 < Len(r)
         THEN SyntaxScan(r, syn, i + 2, MemSet(hl, i, HIGHLIGHT_STRING, 2),
                         prev_sep, in_string)
         ELSE SyntaxScan(r, syn, i + 1, MemSet(hl, i, HIGHLIGHT_STRING, 1),
                         TRUE, IF c = in_string THEN 0 ELSE in_string)
    ELSE IF HasFlag(syn.flags, HL_HIGHLIGHT_STRINGS) /\ (c = CH_DQUOTE \/ c = CH_SQUOTE)
    THEN SyntaxScan(r, syn, i + 1, MemSet(hl, i, HIGHLIGHT_STRING, 1), prev_sep, c)
    ELSE IF HasFlag(syn.flags, HL_HIGHLIGHT_NUMBERS)
            /\ (\/ (isdigit(c) /\ (prev_sep \/ prev_hl = HIGHLIGHT_NUMBER))
                \/ (c = CH_DOT /\ prev_hl = HIGHLIGHT_NUMBER))
    THEN SyntaxScan(r, syn, i + 1, MemSet(hl, i, HIGHLIGHT_NUMBER, 1), FALSE, in_string)
    ELSE IF prev_sep
    THEN LET j == KeywordAt(r, i, syn.keywords, 1) IN
         IF j = 0 THEN SyntaxScan(r, syn, i, hl, FALSE, in_string)
         ELSE LET keyword == syn.keywords[j]
                  kw2 == keyword[Len(keyword)] = CH_BAR
                  klen == IF kw2 THEN Len(keyword) - 1 ELSE Len(keyword)
              IN SyntaxScan(r, syn, i + klen,
                            MemSet(hl, i, IF kw2 THEN HIGHLIGHT_KEYWORD2
                                                 ELSE HIGHLIGHT_KEYWORD1, klen),
                            FALSE, in_string)
    ELSE SyntaxScan(r, syn, i + 1, hl, is_separator(c), in_string)

\* the highlight_row editorUpdateSyntax derives for a rendered row
editorUpdateSyntax(r, syn) ==
    LET hl == [m \in 1..Len(r) |-> HIGHLIGHT_NORMAL] IN
    IF syn.filetype = <<>> THEN hl
    ELSE SyntaxScan(r, syn, 0, hl, TRUE, 0)

(***************************************************************************)
(* Row operations.                                                         *)
(***************************************************************************)
\* the rendered_row editorUpdateRow builds, one raw character at a time
\* a tab rendered as the single space, with no padding to the tab stop
PadToTabStop_None(r) == r

RECURSIVE PadToTabStop(_)
PadToTabStop(r) == IF Len(r) % TAB_STOP # 0 THEN PadToTabStop(r \o <<CH_SPACE>>) ELSE r

RECURSIVE RenderFrom(_, _, _)
RenderFrom(raw, k, r) ==
    IF k > Len(raw) THEN r
    ELSE IF raw[k] = CH_TAB
         THEN RenderFrom(raw, k + 1, PadToTabStop(r \o <<CH_SPACE>>))
         ELSE RenderFrom(raw, k + 1, r \o <<raw[k]>>)

editorUpdateRow(row, syn) ==
    LET r == RenderFrom(row.raw_row, 1, <<>>) IN
    [raw_row |-> row.raw_row, rendered_row |-> r,
     highlight_row |-> editorUpdateSyntax(r, syn)]

RECURSIVE editorComputeRenderedXFrom(_, _, _, _)
editorComputeRenderedXFrom(s, cursor_x, k, rendered_x) ==
    IF k > cursor_x THEN rendered_x
    ELSE IF s[k] = CH_TAB
         THEN editorComputeRenderedXFrom(s, cursor_x, k + 1,
                                         rendered_x + (TAB_STOP - (rendered_x % TAB_STOP)))
         ELSE editorComputeRenderedXFrom(s, cursor_x, k + 1, rendered_x + 1)

\* editorComputeRenderedX counting TAB_STOP columns for every tab
editorComputeRenderedX_WideTabs(s, cursor_x) ==
    cursor_x + (TAB_STOP - 1) * Cardinality({k \in 1..cursor_x : s[k] = CH_TAB})

editorComputeRenderedX(s, cursor_x) == editorComputeRenderedXFrom(s, cursor_x, 1, 0)

NewRow(s) == [raw_row |-> s, rendered_row |-> <<>>, highlight_row |-> <<>>]

\* editorInsertRow leaving E.dirty as it was
editorInsertRow_KeepsClean(e, at, s) ==
    IF at < 0 \/ at > Len(e.rows) THEN e
    ELSE [e EXCEPT
            !.rows = SubSeq(e.rows, 1, at)
                     \o <<editorUpdateRow(NewRow(s), SyntaxOf(e.syntax))>>
                     \o SubSeq(e.rows, at + 1, Len(e.rows))]

editorInsertRow(e, at, s) ==
    IF at < 0 \/ at > Len(e.rows) THEN e
    ELSE [e EXCEPT
            !.rows = SubSeq(e.rows, 1, at)
                     \o <<editorUpdateRow(NewRow(s), SyntaxOf(e.syntax))>>
                     \o SubSeq(e.rows, at + 1, Len(e.rows)),
            !.dirty = TRUE]

\* the row parameter of the source is E.rows[y], y 0-based
\* editorRowInsertChar appending the character whatever the column
editorRowInsertChar_Appends(e, y, at, c) ==
    LET s == e.rows[y + 1].raw_row
        s2 == s \o <<ToByte(c)>>
    IN [e EXCEPT
          !.rows[y + 1] = editorUpdateRow([@ EXCEPT !.raw_row = s2], SyntaxOf(e.syntax)),
          !.dirty = TRUE]

editorRowInsertChar(e, y, at, c) ==
    LET s == e.rows[y + 1].raw_row
        a == IF at < 0 \/ at > Len(s) THEN Len(s) ELSE at
        s2 == SubSeq(s, 1, a) \o <<ToByte(c)>> \o SubSeq(s, a + 1, Len(s))
    IN [e EXCEPT
          !.rows[y + 1] = editorUpdateRow([@ EXCEPT !.raw_row = s2], SyntaxOf(e.syntax)),
          !.dirty = TRUE]

\* editorRowDelChar forgetting E.dirty = true
editorRowDelChar_KeepsClean(e, y, at) ==
    LET s == e.rows[y + 1].raw_row IN
    IF at <= 0 \/ at > Len(s) THEN e
    ELSE [e EXCEPT
            !.rows[y + 1] = editorUpdateRow(
                [@ EXCEPT !.raw_row = SubSeq(s, 1, at - 1) \o SubSeq(s, at + 1, Len(s))],
                SyntaxOf(e.syntax))]

editorRowDelChar(e, y, at) ==
    LET s == e.rows[y + 1].raw_row IN
    IF at <= 0 \/ at > Len(s) THEN e
    ELSE [e EXCEPT
            !.rows[y + 1] = editorUpdateRow(
                [@ EXCEPT !.raw_row = SubSeq(s, 1, at - 1) \o SubSeq(s, at + 1, Len(s))],
                SyntaxOf(e.syntax)),
            !.dirty = TRUE]

\* editorRowAppendString forgetting editorUpdateRow(row)
editorRowAppendString_Stale(e, y, to_append) ==
    [e EXCEPT !.rows[y + 1].raw_row = @ \o to_append, !.dirty = TRUE]

editorRowAppendString(e, y, to_append) ==
    [e EXCEPT
       !.rows[y + 1] = editorUpdateRow([@ EXCEPT !.raw_row = @ \o to_append],
                                       SyntaxOf(e.syntax)),
       !.dirty = TRUE]

(***************************************************************************)
(* Editor operations.                                                      *)
(***************************************************************************)
editorInsertChar(e, c) ==
    LET e1 == IF e.cursor_y = Len(e.rows) THEN editorInsertRow(e, Len(e.rows), <<>>) ELSE e
        e2 == editorRowInsertChar(e1, e1.cursor_y, e1.cursor_x, c)
    IN [e2 EXCEPT !.cursor_x = @ + 1]

editorInsertNewline(e) ==
    LET e1 ==
          IF e.cursor_x = 0 THEN editorInsertRow(e, e.cursor_y, <<>>)
          ELSE LET raw == e.rows[e.cursor_y + 1].raw_row
                   ea == editorInsertRow(e, e.cursor_y + 1,
                                         SubSeq(raw, e.cursor_x + 1, Len(raw)))
               IN [ea EXCEPT
                     !.rows[e.cursor_y + 1] =
                        editorUpdateRow([@ EXCEPT !.raw_row = SubSeq(raw, 1, e.cursor_x)],
                                        SyntaxOf(e.syntax))]
    IN [e1 EXCEPT !.cursor_x = 0, !.cursor_y = @ + 1]

editorDelRow(e, at) ==
    IF at < 0 \/ at >= Len(e.rows) THEN e
    ELSE [e EXCEPT
            !.rows = SubSeq(e.rows, 1, at) \o SubSeq(e.rows, at + 2, Len(e.rows)),
            !.dirty = TRUE]

\* editorDelChar leaving cursor_x at 0 when it joins a row to the one before
editorDelChar_JoinAtZero(e) ==
    IF e.cursor_y = Len(e.rows) THEN e
    ELSE IF e.cursor_x = 0 /\ e.cursor_y = 0 THEN e
    ELSE IF e.cursor_x = 0
    THEN LET e2 == editorRowAppendString(e, e.cursor_y - 1,
                                         e.rows[e.cursor_y + 1].raw_row)
             e3 == editorDelRow(e2, e2.cursor_y)
         IN [e3 EXCEPT !.cursor_y = @ - 1]
    ELSE LET e1 == editorRowDelChar(e, e.cursor_y, e.cursor_x)
         IN [e1 EXCEPT !.cursor_x = @ - 1]

editorDelChar(e) ==
    IF e.cursor_y = Len(e.rows) THEN e
    ELSE IF e.cursor_x = 0 /\ e.cursor_y = 0 THEN e
    ELSE IF e.cursor_x = 0
    THEN LET e1 == [e EXCEPT !.cursor_x = Len(e.rows[e.cursor_y].raw_row)]
             e2 == editorRowAppendString(e1, e1.cursor_y - 1,
                                         e1.rows[e1.cursor_y + 1].raw_row)
             e3 == editorDelRow(e2, e2.cursor_y)
         IN [e3 EXCEPT !.cursor_y = @ - 1]
    ELSE LET e1 == editorRowDelChar(e, e.cursor_y, e.cursor_x)
         IN [e1 EXCEPT !.cursor_x = @ - 1]

(***************************************************************************)
(* File i/o.                                                               *)
(***************************************************************************)
\* strrchr(filename, '.'): the 1-based index of the last '.', 0 for NULL
LastDot(name) ==
    IF \E k \in 1..Len(name) : name[k] = CH_DOT
    THEN CHOOSE k \in 1..Len(name) :
            name[k] = CH_DOT /\ \A m \in (k + 1)..Len(name) : name[m] # CH_DOT
    ELSE 0

\* strstr(hay, needle) != NULL
StrStr(hay, needle) ==
    \E k \in 0..(Len(hay) - Len(needle)) : SubSeq(hay, k + 1, k + Len(needle)) = needle

FileMatches(name, syn) ==
    \E i \in 1..Len(syn.filematch) :
        LET fm == syn.filematch[i]
            is_ext == fm[1] = CH_DOT
            dot == LastDot(name)
        IN \/ is_ext /\ dot # 0 /\ SubSeq(name, dot, Len(name)) = fm
           \/ ~is_ext /\ StrStr(name, fm)

editorSelectSyntaxHighlight(e) ==
    IF e.filename = <<>> THEN e
    ELSE IF \E j \in 1..Len(HLDB) : FileMatches(e.filename, HLDB[j])
    THEN LET j == CHOOSE j \in 1..Len(HLDB) :
                     /\ FileMatches(e.filename, HLDB[j])
                     /\ \A m \in 1..(j - 1) : ~FileMatches(e.filename, HLDB[m])
         IN [e EXCEPT
               !.syntax = j,
               !.rows = [y \in 1..Len(e.rows) |-> editorUpdateRow(e.rows[y], HLDB[j])]]
    ELSE e

\* the lines getline returns, each with its delimiter
RECURSIVE GetLines(_, _)
GetLines(content, line) ==
    IF content = <<>> THEN (IF line = <<>> THEN <<>> ELSE <<line>>)
    ELSE IF content[1] = CH_LF THEN <<line \o <<CH_LF>>>> \o GetLines(Tail(content), <<>>)
    ELSE GetLines(Tail(content), line \o <<content[1]>>)

\* linelen once the trailing '\n' and '\r' are dropped
RECURSIVE StripLen(_, _)
StripLen(line, linelen) ==
    IF linelen > 0 /\ (line[linelen] = CH_LF \/ line[linelen] = CH_CR)
    THEN StripLen(line, linelen - 1)
    ELSE linelen

RECURSIVE editorOpenLines(_, _, _)
editorOpenLines(e, lines, k) ==
    IF k > Len(lines) THEN e
    ELSE editorOpenLines(
            editorInsertRow(e, Len(e.rows),
                            Take(CStr(lines[k]), StripLen(lines[k], Len(lines[k])))),
            lines, k + 1)

editorOpen(e, filename, content) ==
    LET e1 == editorSelectSyntaxHighlight([e EXCEPT !.filename = filename])
        e2 == editorOpenLines(e1, GetLines(content, <<>>), 1)
    IN [e2 EXCEPT !.dirty = FALSE]

\* editorRowsToString forgetting the '\n' after each row
RECURSIVE editorRowsToStringFrom_NoNewline(_, _)
editorRowsToStringFrom_NoNewline(rows, k) ==
    IF k > Len(rows) THEN <<>>
    ELSE rows[k].raw_row \o editorRowsToStringFrom_NoNewline(rows, k + 1)

RECURSIVE editorRowsToStringFrom(_, _)
editorRowsToStringFrom(rows, k) ==
    IF k > Len(rows) THEN <<>>
    ELSE rows[k].raw_row \o <<CH_LF>> \o editorRowsToStringFrom(rows, k + 1)

editorRowsToString(e) == editorRowsToStringFrom(e.rows, 1)

\* strerror of the errno values the model lets the file system answer
strerror(n) ==
    CASE n = 13 -> <<80, 101, 114, 109, 105, 115, 115, 105, 111, 110, 32,
                     100, 101, 110, 105, 101, 100>>            \* "Permission denied"
      [] n = 28 -> <<78, 111, 32, 115, 112, 97, 99, 101, 32, 108, 101, 102, 116, 32,
                     111, 110, 32, 100, 101, 118, 105, 99, 101>>  \* "No space left on device"
      [] OTHER -> <<83, 117, 99, 99, 101, 115, 115>>           \* "Success"

MsgBytesWritten == <<37, 100, 32, 98, 121, 116, 101, 115, 32, 119, 114, 105, 116, 116,
                     101, 110, 32, 116, 111, 32, 100, 105, 115, 107>>
    \* "%d bytes written to disk"
MsgCantSave == <<67, 97, 110, 39, 116, 32, 115, 97, 118, 101, 33, 32, 73, 47, 79, 32,
                 101, 114, 114, 111, 114, 58, 32, 37, 115>>
    \* "Can't save! I/O error: %s"
MsgUnsaved == <<70, 105, 108, 101, 32, 104, 97, 115, 32, 117, 110, 115, 97, 118, 101, 100,
                32, 99, 104, 97, 110, 103, 101, 115, 46, 32, 85, 115, 101, 32, 58, 113, 33,
                32, 116, 111, 32, 102, 111, 114, 99, 101, 32, 113, 117, 105, 116>>
    \* "File has unsaved changes. Use :q! to force quit"
MsgUnsupported == <<85, 110, 115, 117, 112, 112, 111, 114, 116, 101, 100, 32, 99, 111, 109,
                    109, 97, 110, 100, 58, 32, 37, 115>>
    \* "Unsupported command: %s"
MsgWelcome == <<85, 115, 101, 32, 58, 113, 32, 116, 111, 32, 113, 117, 105, 116, 44, 32,
                58, 119, 32, 116, 111, 32, 115, 97, 118, 101>>
    \* "Use :q to quit, :w to save"

\* io.save_ok: open, ftruncate and write all succeed (write returns len);
\* io.errno: errno when one of them does not; io.ub: see vformat
editorSave(e, io) ==
    IF e.filename = <<>> THEN e
    ELSE LET len == Len(editorRowsToString(e)) IN
         IF io.save_ok
         THEN [editorSetStatusMessage(e, MsgBytesWritten, <<[t |-> "int", v |-> len]>>, io.ub)
                 EXCEPT !.dirty = FALSE]
         ELSE editorSetStatusMessage(e, MsgCantSave,
                                     <<[t |-> "str", v |-> strerror(io.errno)]>>, io.ub)

\* editorExecuteCommand taking every command that starts with 'q' for a
\* forced quit
editorExecuteCommand_PrefixQuit(e, io) ==
    IF e.command_buf # <<>> /\ e.command_buf[1] = CH_q THEN [E |-> e, exit |-> TRUE]
    ELSE IF e.command_buf = <<CH_w>> THEN [E |-> editorSave(e, io), exit |-> FALSE]
    ELSE [E |-> editorSetStatusMessage(e, MsgUnsupported,
                                       <<[t |-> "str", v |-> e.command_buf]>>, io.ub),
          exit |-> FALSE]

\* the editor state after the command, and whether exit(0) was called
editorExecuteCommand(e, io) ==
    IF e.command_buf = <<CH_q>> THEN
        IF e.dirty
        THEN [E |-> editorSetStatusMessage(e, MsgUnsaved, <<>>, io.ub), exit |-> FALSE]
        ELSE [E |-> e, exit |-> TRUE]
    ELSE IF e.command_buf = <<CH_q, CH_BANG>> THEN [E |-> e, exit |-> TRUE]
    ELSE IF e.command_buf = <<CH_w>> THEN [E |-> editorSave(e, io), exit |-> FALSE]
    ELSE [E |-> editorSetStatusMessage(e, MsgUnsupported,
                                       <<[t |-> "str", v |-> e.command_buf]>>, io.ub),
          exit |-> FALSE]

(***************************************************************************)
(* Input.                                                                  *)
(***************************************************************************)
RowLen(e, y) == Len(e.rows[y + 1].raw_row)

\* case ARROW_LEFT: case 'h':
MoveLeft(e) ==
    IF e.cursor_x > 0 THEN [e EXCEPT !.cursor_x = @ - 1]
    ELSE IF e.cursor_y > 0
         THEN [e EXCEPT !.cursor_y = @ - 1, !.cursor_x = RowLen(e, e.cursor_y - 1)]
         ELSE e

\* ARROW_RIGHT that does not step from the end of a row to the next row
MoveRight_StopsAtRowEnd(e) ==
    IF e.cursor_y < Len(e.rows) /\ e.cursor_x < RowLen(e, e.cursor_y)
    THEN [e EXCEPT !.cursor_x = @ + 1]
    ELSE e

\* case ARROW_RIGHT: case 'l':
MoveRight(e) ==
    LET not_on_last == e.cursor_y < Len(e.rows) IN
    IF not_on_last /\ e.cursor_x < RowLen(e, e.cursor_y)
    THEN [e EXCEPT !.cursor_x = @ + 1]
    ELSE IF not_on_last /\ e.cursor_x = RowLen(e, e.cursor_y)
         THEN [e EXCEPT !.cursor_y = @ + 1, !.cursor_x = 0]
         ELSE e

\* case ARROW_DOWN: case 'j':
MoveDown(e) == IF e.cursor_y < Len(e.rows) THEN [e EXCEPT !.cursor_y = @ + 1] ELSE e

\* case ARROW_UP: case 'k':
MoveUp(e) == IF e.cursor_y > 0 THEN [e EXCEPT !.cursor_y = @ - 1] ELSE e

\* editorMoveCursor without the snap to the end of the row
SnapCursor_NoSnap(e) == e

\* snap to end - done in terms of cursor_x, not rendered_x
SnapCursor(e) ==
    LET row_len == IF e.cursor_y >= Len(e.rows) THEN 0 ELSE RowLen(e, e.cursor_y)
    IN IF e.cursor_x > row_len THEN [e EXCEPT !.cursor_x = row_len] ELSE e

editorMoveCursor(e, c) ==
    SnapCursor(CASE c = ARROW_LEFT \/ c = CH_h -> MoveLeft(e)
                 [] c = ARROW_RIGHT \/ c = CH_l -> MoveRight(e)
                 [] c = ARROW_DOWN \/ c = CH_j -> MoveDown(e)
                 [] c = ARROW_UP \/ c = CH_k -> MoveUp(e)
                 [] OTHER -> e)

\* while (times--) editorMoveCursor(c)
RECURSIVE MoveTimes(_, _, _)
MoveTimes(e, c, times) ==
    IF times = 0 THEN e ELSE MoveTimes(editorMoveCursor(e, c), c, times - 1)

\* Page Up/Down as one jump to the row the steps end on, with a single snap
editorPageMove_DirectJump(e, c) ==
    LET y == IF c = PAGE_UP
             THEN (IF e.row_offset - e.screen_rows < 0 THEN 0
                   ELSE e.row_offset - e.screen_rows)
             ELSE Min(Len(e.rows), e.row_offset + 2 * e.screen_rows - 1)
    IN SnapCursor([e EXCEPT !.cursor_y = y])

\* case PAGE_UP: case PAGE_DOWN: of INSERT and of NORMAL (the same block)
editorPageMove(e, c) ==
    LET e1 ==
          IF c = PAGE_UP THEN [e EXCEPT !.cursor_y = e.row_offset]
          ELSE LET y == e.row_offset + e.screen_rows - 1
               IN [e EXCEPT !.cursor_y = IF y > Len(e.rows) THEN Len(e.rows) ELSE y]
    IN MoveTimes(e1, IF c = PAGE_UP THEN ARROW_UP ELSE ARROW_DOWN, e.screen_rows)

\* while (E.cursor_y != (int)E.rows.size()) editorMoveCursor(ARROW_DOWN)
RECURSIVE MoveToEnd(_)
MoveToEnd(e) ==
    IF e.cursor_y # Len(e.rows) THEN MoveToEnd(editorMoveCursor(e, ARROW_DOWN)) ELSE e

Colon == <<CH_COLON>>

\* Escape in INSERT that also steps the cursor left
InsertKeypress_EscMovesLeft(e, c) ==
    CASE c = ESC -> [editorMoveCursor(e, ARROW_LEFT) EXCEPT !.mode = "NORMAL"]
      [] c = CH_CR -> editorInsertNewline(e)
      [] c = HOME_KEY -> [e EXCEPT !.cursor_x = 0]
      [] c = END_KEY ->
           IF e.cursor_y < Len(e.rows)
           THEN [e EXCEPT !.cursor_x = RowLen(e, e.cursor_y)] ELSE e
      [] c = BACKSPACE \/ c = CTRL_KEY(CH_h) \/ c = DEL_KEY ->
           editorDelChar(IF c = DEL_KEY THEN editorMoveCursor(e, ARROW_RIGHT) ELSE e)
      [] c = PAGE_UP \/ c = PAGE_DOWN -> editorPageMove(e, c)
      [] c \in {ARROW_LEFT, ARROW_DOWN, ARROW_UP, ARROW_RIGHT} -> editorMoveCursor(e, c)
      [] c = CTRL_KEY(CH_l) -> e
      [] OTHER -> editorInsertChar(e, c)

InsertKeypress(e, c) ==
    CASE c = ESC -> [e EXCEPT !.mode = "NORMAL"]
      [] c = CH_CR -> editorInsertNewline(e)
      [] c = HOME_KEY -> [e EXCEPT !.cursor_x = 0]
      [] c = END_KEY ->
           IF e.cursor_y < Len(e.rows)
           THEN [e EXCEPT !.cursor_x = RowLen(e, e.cursor_y)] ELSE e
      [] c = BACKSPACE \/ c = CTRL_KEY(CH_h) \/ c = DEL_KEY ->
           editorDelChar(IF c = DEL_KEY THEN editorMoveCursor(e, ARROW_RIGHT) ELSE e)
      [] c = PAGE_UP \/ c = PAGE_DOWN -> editorPageMove(e, c)
      [] c \in {ARROW_LEFT, ARROW_DOWN, ARROW_UP, ARROW_RIGHT} -> editorMoveCursor(e, c)
      [] c = CTRL_KEY(CH_l) -> e
      [] OTHER -> editorInsertChar(e, c)

\* NORMAL with a case DEL_KEY that deletes the character under the cursor
NormalKeypress_DelKeyDeletes(e, c, io) ==
    CASE c = CH_i -> [e EXCEPT !.normal_buf = <<>>, !.mode = "INSERT"]
      [] c = CH_COLON ->
           editorSetStatusMessage([e EXCEPT !.normal_buf = <<>>, !.mode = "COMMAND"],
                                  Colon, <<>>, io.ub)
      [] c = ESC -> [e EXCEPT !.mode = "NORMAL"]
      [] c = CH_CR -> [editorMoveCursor(e, ARROW_DOWN) EXCEPT !.cursor_x = 0]
      [] c = HOME_KEY \/ c = CH_0 -> [e EXCEPT !.cursor_x = 0]
      [] c = END_KEY \/ c = CH_DOLLAR ->
           IF e.cursor_y < Len(e.rows)
           THEN [e EXCEPT !.cursor_x = RowLen(e, e.cursor_y)] ELSE e
      [] c = BACKSPACE \/ c = CTRL_KEY(CH_h) -> editorMoveCursor(e, ARROW_LEFT)
      [] c = DEL_KEY -> editorDelChar(editorMoveCursor(e, ARROW_RIGHT))
      [] c = PAGE_UP \/ c = PAGE_DOWN -> editorPageMove(e, c)
      [] c \in {ARROW_LEFT, ARROW_DOWN, ARROW_UP, ARROW_RIGHT,
                CH_h, CH_j, CH_k, CH_l} -> editorMoveCursor(e, c)
      [] c = CH_G -> MoveToEnd(e)
      [] OTHER -> e

NormalKeypress(e, c, io) ==
    IF e.normal_buf = <<>> THEN
        CASE c = CH_i -> [e EXCEPT !.normal_buf = <<>>, !.mode = "INSERT"]
          [] c = CH_COLON ->
               editorSetStatusMessage([e EXCEPT !.normal_buf = <<>>, !.mode = "COMMAND"],
                                      Colon, <<>>, io.ub)
          [] c = ESC -> [e EXCEPT !.mode = "NORMAL"]
          [] c = CH_CR -> [editorMoveCursor(e, ARROW_DOWN) EXCEPT !.cursor_x = 0]
          [] c = HOME_KEY \/ c = CH_0 -> [e EXCEPT !.cursor_x = 0]
          [] c = END_KEY \/ c = CH_DOLLAR ->
               IF e.cursor_y < Len(e.rows)
               THEN [e EXCEPT !.cursor_x = RowLen(e, e.cursor_y)] ELSE e
          [] c = BACKSPACE \/ c = CTRL_KEY(CH_h) -> editorMoveCursor(e, ARROW_LEFT)
          [] c = PAGE_UP \/ c = PAGE_DOWN -> editorPageMove(e, c)
          [] c \in {ARROW_LEFT, ARROW_DOWN, ARROW_UP, ARROW_RIGHT,
                    CH_h, CH_j, CH_k, CH_l} -> editorMoveCursor(e, c)
          [] c = CTRL_KEY(CH_l) -> e
          [] c = CH_G -> MoveToEnd(e)
          [] OTHER -> e
    ELSE
        CASE c = BACKSPACE ->
               [e EXCEPT !.normal_buf = SubSeq(@, 1, Len(@) - 1)]
          [] OTHER -> e

\* COMMAND whose Backspace on an empty accumulator stays in COMMAND
CommandKeypress_BackspaceStays(e, c, io) ==
    CASE c = CH_CR ->
           LET r == editorExecuteCommand(e, io) IN
           IF r.exit THEN r
           ELSE [E |-> [r.E EXCEPT !.command_buf = <<>>, !.mode = "NORMAL"],
                 exit |-> FALSE]
      [] c = ESC ->
           [E |-> editorSetStatusMessage(
                     [e EXCEPT !.command_buf = <<>>, !.mode = "NORMAL"], <<>>, <<>>, io.ub),
            exit |-> FALSE]
      [] c = BACKSPACE ->
           LET e1 == [e EXCEPT !.command_buf = SubSeq(@, 1, Len(@) - 1)]
           IN [E |-> editorSetStatusMessage(e1, Colon \o e1.command_buf, <<>>, io.ub),
               exit |-> FALSE]
      [] OTHER ->
           LET e1 == [e EXCEPT !.command_buf = @ \o <<ToByte(c)>>]
           IN [E |-> editorSetStatusMessage(e1, Colon \o e1.command_buf, <<>>, io.ub),
               exit |-> FALSE]

\* COMMAND whose Escape keeps the accumulated command
CommandKeypress_EscKeeps(e, c, io) ==
    CASE c = CH_CR ->
           LET r == editorExecuteCommand(e, io) IN
           IF r.exit THEN r
           ELSE [E |-> [r.E EXCEPT !.command_buf = <<>>, !.mode = "NORMAL"],
                 exit |-> FALSE]
      [] c = ESC ->
           [E |-> editorSetStatusMessage([e EXCEPT !.mode = "NORMAL"], <<>>, <<>>, io.ub),
            exit |-> FALSE]
      [] c = BACKSPACE ->
           IF e.command_buf # <<>>
           THEN LET e1 == [e EXCEPT !.command_buf = SubSeq(@, 1, Len(@) - 1)]
                IN [E |-> editorSetStatusMessage(e1, Colon \o e1.command_buf, <<>>, io.ub),
                    exit |-> FALSE]
           ELSE [E |-> editorSetStatusMessage([e EXCEPT !.mode = "NORMAL"],
                                              <<>>, <<>>, io.ub),
                 exit |-> FALSE]
      [] OTHER ->
           LET e1 == [e EXCEPT !.command_buf = @ \o <<ToByte(c)>>]
           IN [E |-> editorSetStatusMessage(e1, Colon \o e1.command_buf, <<>>, io.ub),
               exit |-> FALSE]

\* the editor state after the key, and whether exit(0) was called
CommandKeypress(e, c, io) ==
    CASE c = CH_CR ->
           LET r == editorExecuteCommand(e, io) IN
           IF r.exit THEN r
           ELSE [E |-> [r.E EXCEPT !.command_buf = <<>>, !.mode = "NORMAL"],
                 exit |-> FALSE]
      [] c = ESC ->
           [E |-> editorSetStatusMessage(
                     [e EXCEPT !.command_buf = <<>>, !.mode = "NORMAL"], <<>>, <<>>, io.ub),
            exit |-> FALSE]
      [] c = BACKSPACE ->
           IF e.command_buf # <<>>
           THEN LET e1 == [e EXCEPT !.command_buf = SubSeq(@, 1, Len(@) - 1)]
                IN [E |-> editorSetStatusMessage(e1, Colon \o e1.command_buf, <<>>, io.ub),
                    exit |-> FALSE]
           ELSE [E |-> editorSetStatusMessage([e EXCEPT !.mode = "NORMAL"],
                                              <<>>, <<>>, io.ub),
                 exit |-> FALSE]
      [] OTHER ->
           LET e1 == [e EXCEPT !.command_buf = @ \o <<ToByte(c)>>]
           IN [E |-> editorSetStatusMessage(e1, Colon \o e1.command_buf, <<>>, io.ub),
               exit |-> FALSE]

\* c is the key editorReadKey returned
editorProcessKeypress(e, c, io) ==
    IF e.mode = "INSERT" THEN [E |-> InsertKeypress(e, c), exit |-> FALSE]
    ELSE IF e.mode = "NORMAL" THEN [E |-> NormalKeypress(e, c, io), exit |-> FALSE]
    ELSE IF e.mode = "COMMAND" THEN CommandKeypress(e, c, io)
    ELSE [E |-> e, exit |-> FALSE]

(***************************************************************************)
(* Output.                                                                 *)
(***************************************************************************)
\* editorScroll scrolling down only once the cursor is two rows below the
\* window (> for >=)
editorScroll_LateScroll(e) ==
    LET rx == IF e.cursor_y < Len(e.rows)
              THEN editorComputeRenderedX(e.rows[e.cursor_y + 1].raw_row, e.cursor_x)
              ELSE 0
        ro1 == IF e.cursor_y < e.row_offset THEN e.cursor_y ELSE e.row_offset
        ro2 == IF e.cursor_y > ro1 + e.screen_rows
               THEN e.cursor_y - e.screen_rows + 1 ELSE ro1
        co1 == IF rx < e.col_offset THEN rx ELSE e.col_offset
        co2 == IF rx >= co1 + e.screen_cols THEN rx - e.screen_cols + 1 ELSE co1
    IN [e EXCEPT !.rendered_x = rx, !.row_offset = ro2, !.col_offset = co2]

editorScroll(e) ==
    LET rx == IF e.cursor_y < Len(e.rows)
              THEN editorComputeRenderedX(e.rows[e.cursor_y + 1].raw_row, e.cursor_x)
              ELSE 0
        ro1 == IF e.cursor_y < e.row_offset THEN e.cursor_y ELSE e.row_offset
        ro2 == IF e.cursor_y >= ro1 + e.screen_rows
               THEN e.cursor_y - e.screen_rows + 1 ELSE ro1
        co1 == IF rx < e.col_offset THEN rx ELSE e.col_offset
        co2 == IF rx >= co1 + e.screen_cols THEN rx - e.screen_cols + 1 ELSE co1
    IN [e EXCEPT !.rendered_x = rx, !.row_offset = ro2, !.col_offset = co2]

\* what editorRefreshScreen changes in E; the bytes it writes are not state
editorRefreshScreen(e) == editorScroll(e)

(***************************************************************************)
(* Init.                                                                   *)
(***************************************************************************)
\* ws: the struct winsize TIOCGWINSZ answers, ws_col # 0
initEditor(e, ws) ==
    [e EXCEPT !.screen_cols = ws.ws_col, !.screen_rows = ws.ws_row - WS_CHROME]

\* a handler that also sends the cursor back to the top left corner
handleSIGWINCH_HomesCursor(e, ws) ==
    editorRefreshScreen([initEditor(e, ws) EXCEPT !.cursor_x = 0, !.cursor_y = 0])

handleSIGWINCH(e, ws) == editorRefreshScreen(initEditor(e, ws))

\* struct editorConfig E as its member initialisers leave it
E0 ==
    [mode |-> "NORMAL", cursor_x |-> 0, cursor_y |-> 0, rendered_x |-> 0,
     screen_rows |-> 0, screen_cols |-> 0, row_offset |-> 0, col_offset |-> 0,
     dirty |-> FALSE, rows |-> <<>>, filename |-> <<>>, command_bar |-> <<>>,
     normal_buf |-> <<>>, command_buf |-> <<>>, syntax |-> 0]

\* main up to the loop; arg.given: argc >= 2
MainInit(ws, arg) ==
    LET e1 == initEditor(E0, ws)
        e2 == IF arg.given THEN editorOpen(e1, arg.filename, arg.content) ELSE e1
    IN editorSetStatusMessage(e2, MsgWelcome, <<>>, <<>>)

(***************************************************************************)
(* The environment: what the terminal sends and what the file system       *)
(* answers.                                                                *)
(***************************************************************************)
\* keys every mode receives: Escape, Enter, Backspace, Ctrl-H, Ctrl-L, the
\* arrows, Home, End, Delete, Page Up, Page Down, and two sequences
\* editorReadKey does not recognise (ESC [ 2 ~ and ESC O A)
SpecialBursts ==
    { <<ESC>>, <<CH_CR>>, <<BACKSPACE>>, <<8>>, <<12>>,
      <<ESC, CH_LBRACKET, CH_A>>, <<ESC, CH_LBRACKET, CH_B>>,
      <<ESC, CH_LBRACKET, CH_C>>, <<ESC, CH_LBRACKET, CH_D>>,
      <<ESC, CH_LBRACKET, CH_H>>, <<ESC, CH_O, CH_F>>,
      <<ESC, CH_LBRACKET, CH_3, CH_TILDE>>,
      <<ESC, CH_LBRACKET, CH_5, CH_TILDE>>, <<ESC, CH_LBRACKET, CH_6, CH_TILDE>>,
      <<ESC, CH_LBRACKET, 50, CH_TILDE>>, <<ESC, CH_O, CH_A>> }

\* Insert mode also receives '1' and Tab
InsertBursts == SpecialBursts \cup { <<CH_1>>, <<CH_TAB>> }

\* Normal mode also receives i : h j k l 0 $ G and x, Tab, Ctrl-A
NormalBursts ==
    SpecialBursts \cup
    { <<CH_i>>, <<CH_COLON>>, <<CH_h>>, <<CH_j>>, <<CH_k>>, <<CH_l>>, <<CH_0>>,
      <<CH_DOLLAR>>, <<CH_G>>, <<120>>, <<CH_TAB>>, <<1>> }

\* Command mode receives Escape, Enter, Backspace, an unrecognised sequence
\* and q w !
CommandBursts ==
    { <<ESC>>, <<CH_CR>>, <<BACKSPACE>>, <<ESC, CH_LBRACKET, 50, CH_TILDE>>,
      <<CH_q>>, <<CH_w>>, <<CH_BANG>> }

\* the answers of open/ftruncate/write to a save, and the output of an
\* undefined vsnprintf conversion
IOAnswers ==
    { [save_ok |-> ok, errno |-> n, ub |-> u] :
        ok \in BOOLEAN, n \in {13}, u \in { <<63>> } }

NoIO == [save_ok |-> TRUE, errno |-> 0, ub |-> <<>>]

\* struct winsize answers: 1 or 2 text rows, 2 or 5 columns
WinSizes == { [ws_row |-> 3, ws_col |-> 2], [ws_row |-> 4, ws_col |-> 5] }

\* argv: no file, or a.c holding "1\r\n\t"
Args ==
    { [given |-> FALSE, filename |-> <<>>, content |-> <<>>],
      [given |-> TRUE, filename |-> <<97, 46, 99>>, content |-> <<CH_1, CH_CR, CH_LF, CH_TAB>>] }

RECURSIVE TotalChars(_, _)
TotalChars(rows, k) ==
    IF k > Len(rows) THEN 0 ELSE Len(rows[k].raw_row) + TotalChars(rows, k + 1)

WithinBounds(e) ==
    /\ Len(e.rows) <= MaxRows
    /\ TotalChars(e.rows, 1) <= MaxChars
    /\ Len(e.command_buf) <= MaxCmd

(***************************************************************************)
(* The state machine: main's loop and the SIGWINCH handler.                *)
(***************************************************************************)
Init ==
    /\ \E ws \in WinSizes, arg \in Args : E = MainInit(ws, arg)
    /\ pc = "render"
    /\ lastKey = <<>>
    /\ stdin = <<>>
    /\ saved = <<>>

\* editorRefreshScreen() of the loop
Refresh ==
    /\ pc = "render"
    /\ E' = editorRefreshScreen(E)
    /\ pc' = "key"
    /\ lastKey' = <<>>
    /\ UNCHANGED <<stdin, saved>>

\* editorProcessKeypress() when the burst b arrives on an empty stdin
Keypress(b, io) ==
    /\ pc = "key"
    /\ stdin = <<>>
    /\ editorReadKeyUsed(b) = Len(b)
    /\ \E c \in {editorReadKey(b)} :
         \E r \in {editorProcessKeypress(E, c, io)} :
            /\ WithinBounds(r.E)
            /\ E' = r.E
            /\ pc' = IF r.exit THEN "exit" ELSE "render"
            /\ lastKey' = <<c, E.mode>>
            /\ UNCHANGED <<stdin, saved>>

KeypressInsert == E.mode = "INSERT" /\ \E b \in InsertBursts : Keypress(b, NoIO)

KeypressNormal == E.mode = "NORMAL" /\ \E b \in NormalBursts : Keypress(b, NoIO)

KeypressCommand ==
    E.mode = "COMMAND" /\ \E b \in CommandBursts, io \in IOAnswers : Keypress(b, io)

\* SIGWINCH, between two steps of the loop
Resize ==
    /\ pc \in {"render", "key"}
    /\ \E ws \in WinSizes : E' = handleSIGWINCH(E, ws)
    /\ UNCHANGED <<pc, lastKey, stdin, saved>>

Next == Refresh \/ KeypressInsert \/ KeypressNormal \/ KeypressCommand \/ Resize

Spec == Init /\ [][Next]_vars

(***************************************************************************)
(* Properties.                                                             *)
(***************************************************************************)
\* the sequence of raw rows
Raws(e) == [y \in 1..Len(e.rows) |-> e.rows[y].raw_row]

\* this step is a call of editorProcessKeypress
KeyStep == pc = "key" /\ pc' # "key"

\* this step is editorProcessKeypress handling key k
KeyStepOf(k) == KeyStep /\ lastKey'[1] = k

\* s starts with p
StartsWith(s, p) == Len(s) >= Len(p) /\ SubSeq(s, 1, Len(p)) = p

\* the bytes a save writes: len(raw) + 1 for every row
RECURSIVE SumBytes(_, _)
SumBytes(rows, k) ==
    IF k > Len(rows) THEN 0 ELSE Len(rows[k].raw_row) + 1 + SumBytes(rows, k + 1)

TextBytesWritten == SubSeq(MsgBytesWritten, 3, Len(MsgBytesWritten))

TextCantSave == SubSeq(MsgCantSave, 1, Len(MsgCantSave) - 2)

\* C1: the cursor invariant: 0 <= cursor_y <= |rows|; on an existing row
\* 0 <= cursor_x <= len(raw), on the one-past-the-end row cursor_x = 0; in
\* every state reachable by key events and resize events with screen_rows >= 1
C1_CursorInvariant ==
    /\ 0 <= E.cursor_y
    /\ E.cursor_y <= Len(E.rows)
    /\ IF E.cursor_y < Len(E.rows)
       THEN 0 <= E.cursor_x /\ E.cursor_x <= Len(E.rows[E.cursor_y + 1].raw_row)
       ELSE E.cursor_x = 0

\* a key has just moved the cursor down from a column past 0 (rendered_x
\* still holds the column drawn before the key) to a shorter row or to the
\* one-past-the-end row, where the column was snapped to 0
C1_Witness ==
    /\ pc = "render"
    /\ lastKey \in {<<ARROW_DOWN, "NORMAL">>, <<CH_j, "NORMAL">>, <<PAGE_DOWN, "NORMAL">>,
                   <<ARROW_DOWN, "INSERT">>, <<PAGE_DOWN, "INSERT">>}
    /\ E.screen_rows >= 1
    /\ E.rendered_x > 0
    /\ E.cursor_y >= 1
    /\ E.cursor_x = 0

\* every row's rendered_row is the tab expansion of its raw_row and its
\* highlight_row the highlighting of that rendered_row
RowsInSync(e) ==
    \A y \in 1..Len(e.rows) :
        /\ e.rows[y].rendered_row = RenderFrom(e.rows[y].raw_row, 1, <<>>)
        /\ Len(e.rows[y].highlight_row) = Len(e.rows[y].rendered_row)
        /\ e.rows[y].highlight_row =
              editorUpdateSyntax(e.rows[y].rendered_row, SyntaxOf(e.syntax))

\* C2: after load every row's rendered_row is the tab expansion of its
\* raw_row and its highlight_row is as long as (and the highlighting of)
\* that rendered_row, and every step that changes a row or the syntax leaves
\* every row so: no row is ever stale
C2_RowsInSync ==
    /\ RowsInSync(E)
    /\ [][E'.rows # E.rows \/ E'.syntax # E.syntax => RowsInSync(E')]_vars

\* Backspace at column 0 has just merged a row into a non-empty row before it
C2_Witness ==
    /\ pc = "render"
    /\ E.mode = "INSERT"
    /\ lastKey = <<BACKSPACE, "INSERT">>
    /\ E.cursor_y < Len(E.rows)
    /\ E.cursor_x > 0
    /\ E.cursor_x < Len(E.rows[E.cursor_y + 1].raw_row)
    /\ Len(E.rows[E.cursor_y + 1].rendered_row) > Len(E.rows[E.cursor_y + 1].raw_row)

\* the step is Enter on the command "w" with a file name, answered by a
\* save whose open, ftruncate and write succeed
SuccessfulSaveStep ==
    /\ E.mode = "COMMAND"
    /\ E.command_buf = <<CH_w>>
    /\ E.filename # <<>>
    /\ \E io \in IOAnswers : io.save_ok /\ Keypress(<<CH_CR>>, io)

\* C3: a step that changes the raw rows leaves dirty true, and dirty goes
\* from true to false only in a successful save
C3_DirtyLifecycle ==
    [][/\ (Raws(E') # Raws(E) => E'.dirty)
       /\ (E.dirty /\ ~E'.dirty => SuccessfulSaveStep)]_vars

\* a save has just cleared dirty on a buffer that differs from the loaded file
C3_Witness ==
    /\ pc = "render"
    /\ lastKey = <<CH_CR, "COMMAND">>
    /\ ~E.dirty
    /\ E.filename # <<>>
    /\ Raws(E) # << <<CH_1>>, <<CH_TAB>> >>
    /\ E.command_bar = IntToStr(SumBytes(E.rows, 1)) \o TextBytesWritten
    /\ E.cursor_y = Len(E.rows)

\* C4: Enter on "q" while dirty does not exit: the unsaved-changes message,
\* back to NORMAL, everything else as it was; "q" while clean exits; "q!"
\* exits; the editor exits with dirty true only by "q!"
C4_QuitGuard ==
    [][/\ (KeyStepOf(CH_CR) /\ E.mode = "COMMAND" /\ E.command_buf = <<CH_q>> /\ E.dirty
             => /\ pc' = "render"
                /\ E' = [E EXCEPT !.command_bar = MsgUnsaved, !.mode = "NORMAL",
                                  !.command_buf = <<>>])
       /\ (KeyStepOf(CH_CR) /\ E.mode = "COMMAND" /\ E.command_buf = <<CH_q>> /\ ~E.dirty
             => pc' = "exit")
       /\ (KeyStepOf(CH_CR) /\ E.mode = "COMMAND" /\ E.command_buf = <<CH_q, CH_BANG>>
             => pc' = "exit")
       /\ (pc # "exit" /\ pc' = "exit" /\ E'.dirty
             => /\ KeyStepOf(CH_CR)
                /\ E.mode = "COMMAND"
                /\ E.command_buf = <<CH_q, CH_BANG>>)]_vars

\* "q" has just been refused on a dirty buffer
C4_Witness ==
    /\ pc = "render"
    /\ lastKey = <<CH_CR, "COMMAND">>
    /\ E.mode = "NORMAL"
    /\ E.dirty
    /\ E.command_bar = MsgUnsaved

\* the mode the transition table gives after key k in state e
ModeAfter(e, k) ==
    CASE e.mode = "NORMAL" /\ k = CH_i -> "INSERT"
      [] e.mode = "NORMAL" /\ k = CH_COLON -> "COMMAND"
      [] e.mode = "INSERT" /\ k = ESC -> "NORMAL"
      [] e.mode = "COMMAND" /\ k = CH_CR -> "NORMAL"
      [] e.mode = "COMMAND" /\ k = ESC -> "NORMAL"
      [] e.mode = "COMMAND" /\ k = BACKSPACE /\ e.command_buf = <<>> -> "NORMAL"
      [] OTHER -> e.mode

\* C5: the mode starts as NORMAL; a handled key moves it exactly as the
\* transition table says (i, :, Escape, Enter, Backspace on an empty
\* accumulator) and nothing else changes it
C5_ModeTransitions ==
    /\ E.mode = "NORMAL"
    /\ [][IF KeyStep /\ pc' = "render"
          THEN E'.mode = ModeAfter(E, lastKey'[1])
          ELSE E'.mode = E.mode]_vars

\* Backspace on an empty accumulator has just left COMMAND
C5_Witness ==
    /\ pc = "render"
    /\ lastKey = <<BACKSPACE, "COMMAND">>
    /\ E.mode = "NORMAL"
    /\ E.command_bar = <<>>
    /\ E.cursor_x = 0
    /\ E.cursor_y = Len(E.rows)
    /\ Len(E.rows) >= 1

\* C6: Enter on "w": a failed save leaves rows and dirty as they were and
\* shows the I/O error; a successful one clears dirty, leaves the rows and
\* reports sum(len(raw) + 1) bytes
C6_SaveOutcome ==
    [][\A io \in IOAnswers :
          (/\ E.mode = "COMMAND"
           /\ E.command_buf = <<CH_w>>
           /\ E.filename # <<>>
           /\ Keypress(<<CH_CR>>, io))
          => IF io.save_ok
             THEN /\ ~E'.dirty
                  /\ E'.rows = E.rows
                  /\ E'.command_bar = IntToStr(SumBytes(E.rows, 1)) \o TextBytesWritten
             ELSE /\ E'.dirty = E.dirty
                  /\ E'.rows = E.rows
                  /\ E'.command_bar = TextCantSave \o strerror(io.errno)]_vars

\* a save of two rows with text has just succeeded
C6_Witness ==
    /\ pc = "render"
    /\ lastKey = <<CH_CR, "COMMAND">>
    /\ ~E.dirty
    /\ Len(E.rows) = 2
    /\ E.rows[1].raw_row # <<>>
    /\ E.rows[2].raw_row # <<>>
    /\ Raws(E) # << <<CH_1>>, <<CH_TAB>> >>
    /\ E.command_bar = IntToStr(SumBytes(E.rows, 1)) \o TextBytesWritten

\* C7: Enter on any command but "w", "q", "q!" changes the status message,
\* returns to NORMAL and empties the accumulator; rows, dirty, cursor and
\* viewport offsets stay and the editor does not exit
C7_UnsupportedCommand ==
    [][\A io \in IOAnswers :
          (/\ E.mode = "COMMAND"
           /\ E.command_buf \notin {<<CH_w>>, <<CH_q>>, <<CH_q, CH_BANG>>}
           /\ Keypress(<<CH_CR>>, io))
          => /\ pc' = "render"
             /\ E' = [E EXCEPT !.command_bar = E'.command_bar, !.mode = "NORMAL",
                               !.command_buf = <<>>]]_vars

\* an unsupported two-character command has just been reported on a dirty buffer
C7_Witness ==
    /\ pc = "render"
    /\ lastKey = <<CH_CR, "COMMAND">>
    /\ E.mode = "NORMAL"
    /\ E.dirty
    /\ E.rows # <<>>
    /\ StartsWith(E.command_bar, SubSeq(MsgUnsupported, 1, Len(MsgUnsupported) - 2))
    /\ Len(E.command_bar) = Len(MsgUnsupported)

\* the cursor is at the last column of the last row
AtEndOfLastRow(e) ==
    /\ Len(e.rows) >= 1
    /\ e.cursor_y = Len(e.rows) - 1
    /\ e.cursor_x = Len(e.rows[Len(e.rows)].raw_row)

\* this step is a move-right: ARROW_RIGHT in NORMAL or INSERT, l in NORMAL
MoveRightStep ==
    \/ KeyStepOf(ARROW_RIGHT) /\ E.mode \in {"NORMAL", "INSERT"}
    \/ KeyStepOf(CH_l) /\ E.mode = "NORMAL"

\* C8 as stated: a move-right from the last column of the last row leaves
\* the cursor there
C8_StopsAtEndOfLastRow ==
    [][MoveRightStep /\ AtEndOfLastRow(E)
          => E'.cursor_y = E.cursor_y /\ E'.cursor_x = E.cursor_x]_vars

\* C8 amended: a move-right from the last column of the last row takes the
\* cursor to column 0 of the one-past-the-end row, and a move-right there
\* leaves it there; the rows are unchanged
C8_StopsAtSentinel ==
    [][MoveRightStep
          => /\ (AtEndOfLastRow(E)
                   => E'.cursor_y = Len(E.rows) /\ E'.cursor_x = 0)
             /\ (E.cursor_y = Len(E.rows)
                   => E'.cursor_y = Len(E.rows) /\ E'.cursor_x = 0)
             /\ E'.rows = E.rows]_vars

\* a move-right has just taken the cursor from the end of the last row
\* (rendered_x still holds the column drawn before the key) to the
\* one-past-the-end row
C8_Witness ==
    /\ pc = "render"
    /\ lastKey \in {<<ARROW_RIGHT, "NORMAL">>, <<ARROW_RIGHT, "INSERT">>, <<CH_l, "NORMAL">>}
    /\ E.rendered_x > 0
    /\ Len(E.rows) >= 1
    /\ E.cursor_y = Len(E.rows)
    /\ E.rows[Len(E.rows)].raw_row # <<>>

\* the keys the claim lists as recognised in NORMAL
C9_ListedKeys ==
    {CH_i, CH_COLON, CH_h, CH_j, CH_k, CH_l,
     ARROW_LEFT, ARROW_RIGHT, ARROW_UP, ARROW_DOWN,
     HOME_KEY, END_KEY, CH_0, CH_DOLLAR, PAGE_UP, PAGE_DOWN, CH_CR, CH_G}

\* a key of NORMAL with an empty pending accumulator left rows, dirty, mode
\* and cursor as they were
NormalKeyIgnored ==
    /\ E'.rows = E.rows
    /\ E'.dirty = E.dirty
    /\ E'.mode = E.mode
    /\ E'.cursor_y = E.cursor_y
    /\ E'.cursor_x = E.cursor_x

\* C9 as stated: in NORMAL with an empty pending accumulator every key
\* outside the listed ones is ignored
C9_OnlyListedKeysAct ==
    [][KeyStep /\ E.mode = "NORMAL" /\ E.normal_buf = <<>>
          /\ lastKey'[1] \notin C9_ListedKeys
          => NormalKeyIgnored]_vars

\* C9 amended: ... every key outside the listed ones, Backspace and Ctrl-H
\* is ignored (Backspace and Ctrl-H move the cursor left)
C9_OtherKeysIgnored ==
    [][KeyStep /\ E.mode = "NORMAL" /\ E.normal_buf = <<>>
          /\ lastKey'[1] \notin C9_ListedKeys \cup {BACKSPACE, CTRL_KEY(CH_h)}
          => NormalKeyIgnored]_vars

\* Delete has just been ignored in NORMAL with the cursor inside a row
C9_Witness ==
    /\ pc = "render"
    /\ lastKey = <<DEL_KEY, "NORMAL">>
    /\ E.mode = "NORMAL"
    /\ E.cursor_y < Len(E.rows)
    /\ E.cursor_x < Len(E.rows[E.cursor_y + 1].raw_row)

\* C10 as stated: a bare Escape (editorReadKey returning '\x1b', for a
\* lone Escape byte or for a sequence it does not recognise) changes nothing
\* of E in NORMAL and in COMMAND, and only the mode in INSERT
C10_EscapeHarmless ==
    [][KeyStepOf(ESC)
          => E' = IF E.mode = "INSERT" THEN [E EXCEPT !.mode = "NORMAL"] ELSE E]_vars

\* C10 amended: a bare Escape changes nothing of E in NORMAL, only the mode
\* in INSERT, and in COMMAND it returns to NORMAL, empties the accumulator
\* and clears the status line, leaving rows, cursor and dirty
C10_EscapePerMode ==
    [][KeyStepOf(ESC)
          => E' = CASE E.mode = "INSERT" -> [E EXCEPT !.mode = "NORMAL"]
                    [] E.mode = "COMMAND" ->
                         [E EXCEPT !.mode = "NORMAL", !.command_buf = <<>>,
                                   !.command_bar = <<>>]
                    [] OTHER -> E]_vars

\* Escape has just left COMMAND on a dirty buffer, discarding a typed
\* command and clearing the status line
C10_Witness ==
    /\ pc = "render"
    /\ lastKey = <<ESC, "COMMAND">>
    /\ E.mode = "NORMAL"
    /\ E.dirty
    /\ E.command_buf = <<>>
    /\ E.command_bar = <<>>
    /\ E.cursor_y < Len(E.rows)
    /\ E.cursor_x > 0

\* C11: the command accumulator is empty in every reachable state whose
\* mode is not COMMAND, and right after every ':' handled in NORMAL the mode
\* is COMMAND, the accumulator is empty and the command line shows exactly ":"
C11_AccumulatorEmpty ==
    /\ E.command_buf = <<>>
    /\ [][/\ (E'.mode # "COMMAND" => E'.command_buf = <<>>)
          /\ (KeyStepOf(CH_COLON) /\ E.mode = "NORMAL"
                => /\ E'.mode = "COMMAND"
                   /\ E'.command_buf = <<>>
                   /\ E'.command_bar = Colon)]_vars

\* ':' has just entered COMMAND on a dirty buffer, after an earlier command
\* line left its message behind
C11_Witness ==
    /\ pc = "render"
    /\ lastKey = <<CH_COLON, "NORMAL">>
    /\ E.mode = "COMMAND"
    /\ E.dirty
    /\ E.command_buf = <<>>
    /\ E.command_bar = Colon

(***************************************************************************)
(* The command line on its own: the editor receiving only ':' and cursor   *)
(* keys in NORMAL, and printable characters, Enter, Escape and Backspace   *)
(* in COMMAND.                                                             *)
(***************************************************************************)
\* NORMAL receives ':' l j
NormalBurstsToCommand == { <<CH_COLON>>, <<CH_l>>, <<CH_j>> }

\* COMMAND receives Escape, Enter, Backspace and the printable q d %
CommandLineBursts ==
    { <<ESC>>, <<CH_CR>>, <<BACKSPACE>>, <<CH_q>>, <<CH_d>>, <<CH_PERCENT>> }

\* what vsnprintf writes for a conversion whose behaviour is undefined:
\* nothing, the '%' itself, or something else ('?')
UBAnswers ==
    { [save_ok |-> TRUE, errno |-> 0, ub |-> u] : u \in { <<>>, <<CH_PERCENT>>, <<63>> } }

KeypressNormalToCommand ==
    E.mode = "NORMAL" /\ \E b \in NormalBurstsToCommand : Keypress(b, NoIO)

KeypressCommandLine ==
    E.mode = "COMMAND" /\ \E b \in CommandLineBursts, io \in UBAnswers : Keypress(b, io)

NextCommand == Refresh \/ KeypressNormalToCommand \/ KeypressCommandLine \/ Resize

SpecCommand == Init /\ [][NextCommand]_vars

\* C12: in every reachable state whose mode is COMMAND the command line is
\* ':' followed by exactly the accumulated command
C12_CommandLineShown ==
    E.mode = "COMMAND" => E.command_bar = Colon \o E.command_buf

\* the cursor is inside the window and rendered_x is the tab-expanded cursor_x
ViewportHolds(e) ==
    /\ e.rendered_x = IF e.cursor_y < Len(e.rows)
                      THEN editorComputeRenderedX(e.rows[e.cursor_y + 1].raw_row,
                                                  e.cursor_x)
                      ELSE 0
    /\ 0 <= e.row_offset
    /\ e.row_offset <= e.cursor_y
    /\ e.cursor_y < e.row_offset + e.screen_rows
    /\ 0 <= e.col_offset
    /\ e.col_offset <= e.rendered_x
    /\ e.rendered_x < e.col_offset + e.screen_cols

\* C13: after every render cycle (the main loop's editorRefreshScreen and
\* the one of the SIGWINCH handler), with screen_rows >= 1 and
\* screen_cols >= 1: 0 <= row_offset <= cursor_y < row_offset + screen_rows
\* and 0 <= col_offset <= rendered_x < col_offset + screen_cols, rendered_x
\* being recomputed from cursor_x (0 on the one-past-the-end row)
C13_ViewportInvariant ==
    [][(Refresh \/ Resize) /\ E'.screen_rows >= 1 /\ E'.screen_cols >= 1
          => ViewportHolds(E')]_vars

\* a render has just scrolled a one-row window down and right to a cursor
\* behind a tab on the second row
C13_Witness ==
    /\ pc = "key"
    /\ lastKey = <<>>
    /\ E.screen_rows = 1
    /\ E.row_offset > 0
    /\ E.col_offset > 0
    /\ E.rendered_x > E.cursor_x
    /\ E.cursor_y < Len(E.rows)

\* C14: in INSERT with the cursor on an existing row, Enter followed (after
\* the render between two keys) by Backspace restores the raw rows and the
\* cursor position
C14_SplitJoinRoundTrip ==
    [][KeyStepOf(CH_CR) /\ E.mode = "INSERT" /\ E.cursor_y < Len(E.rows)
          => LET back == InsertKeypress(editorRefreshScreen(E'), BACKSPACE)
             IN /\ Raws(back) = Raws(E)
                /\ back.cursor_y = E.cursor_y
                /\ back.cursor_x = E.cursor_x]_vars

\* Enter has just split a row between two characters
C14_Witness ==
    /\ pc = "render"
    /\ lastKey = <<CH_CR, "INSERT">>
    /\ Len(E.rows) = 2
    /\ E.cursor_y = 1
    /\ E.cursor_x = 0
    /\ E.rows[1].raw_row # <<>>
    /\ E.rows[2].raw_row # <<>>
    /\ E.rows[1].raw_row \o E.rows[2].raw_row \in {<<CH_1, CH_TAB>>, <<CH_TAB, CH_1>>}

\* the printable characters
Printable == 32..126

\* raw with ch inserted at index x
InsertedAt(raw, x, ch) == SubSeq(raw, 1, x) \o <<ch>> \o SubSeq(raw, x + 1, Len(raw))

\* C15: 'i' in NORMAL changes only the mode, to INSERT; a printable ch in
\* INSERT at (y, x) leaves the mode, sets dirty, moves the cursor to
\* (y, x + 1) and inserts ch at index x of row y (on the one-past-the-end
\* row: appends a new last row holding exactly ch), the other rows as they
\* were; Escape in INSERT changes only the mode, to NORMAL; and the renders
\* in between change none of mode, dirty, cursor and raw rows.  So i, ch,
\* Escape ends in NORMAL, dirty, at (y, x + 1), with ch inserted
C15_InsertCharacter ==
    [][/\ (KeyStepOf(CH_i) /\ E.mode = "NORMAL"
             => E' = [E EXCEPT !.mode = "INSERT"])
       /\ (KeyStep /\ E.mode = "INSERT" /\ lastKey'[1] \in Printable
             => /\ E'.mode = "INSERT"
                /\ E'.dirty
                /\ E'.cursor_y = E.cursor_y
                /\ E'.cursor_x = E.cursor_x + 1
                /\ Raws(E') = IF E.cursor_y = Len(E.rows)
                              THEN Append(Raws(E), <<lastKey'[1]>>)
                              ELSE [Raws(E) EXCEPT ![E.cursor_y + 1] =
                                       InsertedAt(@, E.cursor_x, lastKey'[1])])
       /\ (KeyStepOf(ESC) /\ E.mode = "INSERT"
             => E' = [E EXCEPT !.mode = "NORMAL"])
       /\ (~KeyStep
             => /\ E'.mode = E.mode
                /\ E'.dirty = E.dirty
                /\ E'.cursor_y = E.cursor_y
                /\ E'.cursor_x = E.cursor_x
                /\ Raws(E') = Raws(E))]_vars

\* Escape has just ended an INSERT in which a character was typed in front
\* of another
C15_Witness ==
    /\ pc = "render"
    /\ lastKey = <<ESC, "INSERT">>
    /\ E.mode = "NORMAL"
    /\ E.dirty
    /\ E.cursor_y < Len(E.rows)
    /\ E.cursor_x = 1
    /\ E.rows[E.cursor_y + 1].raw_row \in {<<CH_1, CH_TAB>>, <<CH_1, CH_1>>}
    /\ E.filename = <<>>

(***************************************************************************)
(* One row on its own: editorUpdateRow (with editorUpdateSyntax) applied   *)
(* to a row whose raw text was just set, then editorScroll computing       *)
(* rendered_x for a cursor on it.                                          *)
(***************************************************************************)
\* Tab 1 i f y n t Space ( "
RowAlphabet == { CH_TAB, CH_1, CH_i, 102, 121, 110, 116, CH_SPACE, 40, CH_DQUOTE }

RowTexts == UNION { [1..n -> RowAlphabet] : n \in 0..MaxRowLen }

\* E with the single row raw not yet rendered, the cursor at column k of it
\* and syntax syn selected
InitRow ==
    /\ \E raw \in RowTexts, syn \in 0..Len(HLDB) :
          \E k \in 0..Len(raw) :
             E = [initEditor(E0, [ws_row |-> 4, ws_col |-> 5]) EXCEPT
                    !.rows = <<NewRow(raw)>>, !.cursor_x = k, !.syntax = syn]
    /\ pc = "update"
    /\ lastKey = <<>>
    /\ stdin = <<>>
    /\ saved = <<>>

UpdateRow ==
    /\ pc = "update"
    /\ E' = [E EXCEPT !.rows[1] = editorUpdateRow(@, SyntaxOf(E.syntax))]
    /\ pc' = "render"
    /\ UNCHANGED <<lastKey, stdin, saved>>

NextRow == UpdateRow \/ Refresh

SpecRow == InitRow /\ [][NextRow]_vars

\* C16: for every raw text and every k in 0..len(raw),
\* editorComputeRenderedX(raw, k) is the length of the rendering of the
\* first k characters of raw (for k = len(raw): of rendered_row); for raw
\* text without tabs rendered_row = raw and editorComputeRenderedX(raw, k) = k
C16_CursorRenderAgreement ==
    pc = "key" =>
       LET raw == E.rows[1].raw_row
           k == E.cursor_x
       IN /\ E.rendered_x = Len(RenderFrom(SubSeq(raw, 1, k), 1, <<>>))
          /\ k = Len(raw) => E.rendered_x = Len(E.rows[1].rendered_row)
          /\ (\A j \in 1..Len(raw) : raw[j] # CH_TAB)
                => E.rows[1].rendered_row = raw /\ E.rendered_x = k

\* the cursor is behind a tab that follows a character, before another tab
C16_Witness ==
    /\ pc = "key"
    /\ E.rows[1].raw_row = <<CH_1, CH_TAB, CH_i, CH_TAB>>
    /\ E.cursor_x = 3
    /\ E.rendered_x = 5

\* n spaces
Spaces(n) == [j \in 1..n |-> CH_SPACE]

\* the rendering the tab expansion law gives: a tab is replaced by spaces up
\* to the smallest multiple of TAB_STOP strictly greater than the length so
\* far, any other character is copied
RECURSIVE TabLaw(_, _, _)
TabLaw(raw, k, r) ==
    IF k > Len(raw) THEN r
    ELSE IF raw[k] = CH_TAB
         THEN TabLaw(raw, k + 1,
                     r \o Spaces(((Len(r) \div TAB_STOP) + 1) * TAB_STOP - Len(r)))
         ELSE TabLaw(raw, k + 1, r \o <<raw[k]>>)

\* C17: for every raw text, editorUpdateRow expands each tab to one or more
\* spaces up to the smallest multiple of TAB_STOP = 4 strictly greater than
\* the rendered length before it and copies every other character, and
\* |rendered_row| >= |raw_row|
C17_TabExpansionLaw ==
    pc # "update" =>
       /\ E.rows[1].rendered_row = TabLaw(E.rows[1].raw_row, 1, <<>>)
       /\ Len(E.rows[1].rendered_row) >= Len(E.rows[1].raw_row)

\* a row was rendered whose first tab pads to column 4 and whose second
\* tab, starting on a tab stop, takes four columns
C17_Witness ==
    /\ pc = "render"
    /\ E.rows[1].raw_row = <<CH_1, CH_TAB, CH_TAB, CH_i>>
    /\ E.rows[1].rendered_row =
          <<CH_1, CH_SPACE, CH_SPACE, CH_SPACE,
            CH_SPACE, CH_SPACE, CH_SPACE, CH_SPACE, CH_i>>

(***************************************************************************)
(* Key decoding: the loop reading keys from bytes typed ahead on stdin.    *)
(***************************************************************************)
\* the bytes an escape sequence is made of: ESC [ O, the digits 1..9, the
\* letters A B C D F H, '~', and 'x', which no sequence uses
KeyBytes ==
    { ESC, CH_LBRACKET, CH_O, CH_TILDE, 120, CH_A, CH_B, CH_C, CH_D, CH_F, CH_H }
        \cup (CH_1 .. CH_9)

\* char seq[3]: the bytes editorReadKey reads after an Escape
SeqLen == 3

\* what is typed ahead: one byte that is not Escape, or Escape followed by
\* up to SeqLen bytes
TypedAhead ==
    { <<c>> : c \in KeyBytes \ {ESC} }
        \cup { <<ESC>> \o s : s \in UNION { [1..n -> KeyBytes] : n \in 0..SeqLen } }

InitKeys ==
    /\ \E ws \in WinSizes, arg \in Args : E = MainInit(ws, arg)
    /\ pc = "render"
    /\ lastKey = <<>>
    /\ stdin \in TypedAhead
    /\ saved = <<>>

\* editorProcessKeypress() reading its key from the bytes typed ahead; a
\* read that finds stdin empty after an Escape times out
KeypressStdin ==
    /\ pc = "key"
    /\ stdin # <<>>
    /\ \E c \in {editorReadKey(stdin)} :
         \E r \in {editorProcessKeypress(E, c, NoIO)} :
            /\ WithinBounds(r.E)
            /\ E' = r.E
            /\ pc' = IF r.exit THEN "exit" ELSE "render"
            /\ lastKey' = <<c, E.mode>>
            /\ stdin' = SubSeq(stdin, editorReadKeyUsed(stdin) + 1, Len(stdin))
            /\ UNCHANGED saved

NextKeys == Refresh \/ KeypressStdin

SpecKeys == InitKeys /\ [][NextKeys]_vars

\* the key-symbol of the sequence at the head of the bytes b
IsDigit(c) == c >= 48 /\ c <= 57

DecodedKey(b) ==
    IF b[1] # ESC THEN b[1]
    ELSE IF Len(b) >= 3 /\ b[2] = 91 /\ ~IsDigit(b[3]) THEN
        CASE b[3] = 65 -> ARROW_UP
          [] b[3] = 66 -> ARROW_DOWN
          [] b[3] = 67 -> ARROW_RIGHT
          [] b[3] = 68 -> ARROW_LEFT
          [] b[3] = 72 -> HOME_KEY
          [] b[3] = 70 -> END_KEY
          [] OTHER -> ESC
    ELSE IF Len(b) >= 4 /\ b[2] = 91 /\ b[4] = 126 THEN
        CASE b[3] \in {49, 55} -> HOME_KEY
          [] b[3] = 51 -> DEL_KEY
          [] b[3] \in {52, 56} -> END_KEY
          [] b[3] = 53 -> PAGE_UP
          [] b[3] = 54 -> PAGE_DOWN
          [] OTHER -> ESC
    ELSE IF Len(b) >= 3 /\ b[2] = 79 /\ b[3] \in {72, 70} THEN
        IF b[3] = 72 THEN HOME_KEY ELSE END_KEY
    ELSE ESC

\* C18: the key a keypress handles is the key-symbol of the sequence at the
\* head of stdin: ESC [ A/B/C/D are the arrows, ESC [ H/F and ESC O H/F are
\* Home/End, ESC [ d ~ is Home for d in {1,7}, Delete for 3, End for {4,8},
\* Page Up for 5, Page Down for 6; every other sequence starting with Escape
\* (unknown letter, unknown digit, digit without '~', nothing more to read)
\* is a bare Escape; a byte that is not Escape is itself.
C18_KeyDecoding ==
    [][KeyStep /\ stdin # <<>> => lastKey'[1] = DecodedKey(stdin)]_vars

\* an unrecognised three-byte sequence was handled as Escape and the 'A'
\* typed after it is still to be read
C18_Witness ==
    /\ pc = "render"
    /\ lastKey = <<ESC, "NORMAL">>
    /\ stdin = <<CH_A>>

(***************************************************************************)
(* Keyword boundaries.                                                     *)
(***************************************************************************)
KeywordClasses == {HIGHLIGHT_KEYWORD1, HIGHLIGHT_KEYWORD2}

\* the text of a configured keyword and the class it is given
KeywordText(kw) == IF kw[Len(kw)] = 124 THEN SubSeq(kw, 1, Len(kw) - 1) ELSE kw

KeywordClass(kw) == IF kw[Len(kw)] = 124 THEN HIGHLIGHT_KEYWORD2 ELSE HIGHLIGHT_KEYWORD1

\* keyword kw stands at positions s .. s + len - 1 (from 0) of r, is
\* classified as such there, and is followed by a separator or the row's end
KeywordStands(r, hl, kw, s) ==
    LET t == KeywordText(kw) IN
    /\ s + Len(t) <= Len(r)
    /\ SubSeq(r, s + 1, s + Len(t)) = t
    /\ \A m \in (s + 1)..(s + Len(t)) : hl[m] = KeywordClass(kw)
    /\ (s + Len(t) = Len(r) \/ is_separator(r[s + Len(t) + 1]))

SeparatorBefore(r, s) == s = 0 \/ is_separator(r[s])

ClosingQuoteBefore(r, hl, s) ==
    s > 0 /\ r[s] \in {34, 39} /\ hl[s] = HIGHLIGHT_STRING

\* "iffy" and "if ("
Text_iffy == <<105, 102, 102, 121>>

Text_if_paren == <<105, 102, 32, 40>>

\* the two examples of the claim
KeywordExamples(r, hl) ==
    /\ r = Text_iffy => \A m \in 1..Len(hl) : hl[m] \notin KeywordClasses
    /\ r = Text_if_paren => hl[1] = HIGHLIGHT_KEYWORD1 /\ hl[2] = HIGHLIGHT_KEYWORD1

\* C19 as stated: with an active rule, every position classified Keyword1 or
\* Keyword2 lies in a configured keyword that starts at the row start or
\* right after a separator and is followed by a separator or the row's end;
\* "iffy" has no keyword position, "if (" has positions 0-1 Keyword1.
C19_SeparatorOnBothSides ==
    pc # "update" /\ E.syntax # 0 =>
        LET r == E.rows[1].rendered_row
            hl == E.rows[1].highlight_row
            kws == SyntaxOf(E.syntax).keywords
        IN /\ \A p \in 0..(Len(r) - 1) :
                 hl[p + 1] \in KeywordClasses =>
                    \E j \in 1..Len(kws), s \in 0..p :
                       /\ p < s + Len(KeywordText(kws[j]))
                       /\ KeywordStands(r, hl, kws[j], s)
                       /\ SeparatorBefore(r, s)
           /\ KeywordExamples(r, hl)

\* C19: with an active rule, every position classified Keyword1 or Keyword2
\* lies in a configured keyword that starts at the row start, right after a
\* separator or right after the closing quote of a string, and is followed
\* by a separator or the row's end; "iffy" has no keyword position, "if ("
\* has positions 0-1 Keyword1.
C19_KeywordBoundaries ==
    pc # "update" /\ E.syntax # 0 =>
        LET r == E.rows[1].rendered_row
            hl == E.rows[1].highlight_row
            kws == SyntaxOf(E.syntax).keywords
        IN /\ \A p \in 0..(Len(r) - 1) :
                 hl[p + 1] \in KeywordClasses =>
                    \E j \in 1..Len(kws), s \in 0..p :
                       /\ p < s + Len(KeywordText(kws[j]))
                       /\ KeywordStands(r, hl, kws[j], s)
                       /\ (SeparatorBefore(r, s) \/ ClosingQuoteBefore(r, hl, s))
           /\ KeywordExamples(r, hl)

\* the row ""if rendered under the C rule: the keyword right after the
\* closing quote
C19_Witness ==
    /\ pc = "render"
    /\ E.syntax # 0
    /\ E.rows[1].rendered_row = <<CH_DQUOTE, CH_DQUOTE, CH_i, 102>>
    /\ E.rows[1].highlight_row =
          <<HIGHLIGHT_STRING, HIGHLIGHT_STRING, HIGHLIGHT_KEYWORD1, HIGHLIGHT_KEYWORD1>>

(***************************************************************************)
(* Paging: the loop on files of up to MaxPageRows rows, with the keys that *)
(* move the cursor and change the mode but not the text.                   *)
(***************************************************************************)
\* a row of a paged file: empty, or "1"
PageLines == { <<>>, <<CH_1>> }

RECURSIVE FileOf(_, _)
FileOf(ls, k) == IF k > Len(ls) THEN <<>> ELSE ls[k] \o <<CH_LF>> \o FileOf(ls, k + 1)

PageArgs ==
    { [given |-> TRUE, filename |-> <<97, 46, 99>>, content |-> FileOf(ls, 1)] :
        ls \in UNION { [1..n -> PageLines] : n \in 0..MaxPageRows } }

\* Page Up, Page Down, and the arrows up, down and right
PageBursts ==
    { <<ESC, CH_LBRACKET, CH_5, CH_TILDE>>, <<ESC, CH_LBRACKET, CH_6, CH_TILDE>>,
      <<ESC, CH_LBRACKET, CH_A>>, <<ESC, CH_LBRACKET, CH_B>>,
      <<ESC, CH_LBRACKET, CH_C>> }

InitPage ==
    /\ \E ws \in WinSizes, arg \in PageArgs : E = MainInit(ws, arg)
    /\ pc = "render"
    /\ lastKey = <<>>
    /\ stdin = <<>>
    /\ saved = <<>>

\* editorProcessKeypress() on a key that leaves the text alone
KeypressPaging(b) ==
    /\ pc = "key"
    /\ stdin = <<>>
    /\ \E c \in {editorReadKey(b)} :
         \E r \in {editorProcessKeypress(E, c, NoIO)} :
            /\ E' = r.E
            /\ pc' = IF r.exit THEN "exit" ELSE "render"
            /\ lastKey' = <<c, E.mode>>
            /\ UNCHANGED <<stdin, saved>>

\* Normal mode also receives i
KeypressPagingNormal ==
    E.mode = "NORMAL" /\ \E b \in PageBursts \cup { <<CH_i>> } : KeypressPaging(b)

\* Insert mode also receives Escape
KeypressPagingInsert ==
    E.mode = "INSERT" /\ \E b \in PageBursts \cup { <<ESC>> } : KeypressPaging(b)

NextPage == Refresh \/ KeypressPagingNormal \/ KeypressPagingInsert \/ Resize

SpecPage == InitPage /\ [][NextPage]_vars

\* the length of row y of e, 0 for the row one past the end
LenOfRow(e, y) == IF y < Len(e.rows) THEN Len(e.rows[y + 1].raw_row) ELSE 0

Max(a, b) == IF a > b THEN a ELSE b

\* the row Page Down / Page Up ends on
PageDownRow(e) == Min(Len(e.rows), e.row_offset + 2 * e.screen_rows - 1)

PageUpRow(e) == Max(0, e.row_offset - e.screen_rows)

\* the rows the cursor steps onto, one per single-step move
PageDownSteps(e) ==
    { Min(Len(e.rows), Min(Len(e.rows), e.row_offset + e.screen_rows - 1) + k) :
        k \in 1..e.screen_rows }

PageUpSteps(e) == { Max(0, e.row_offset - k) : k \in 1..e.screen_rows }

\* the smallest of x and the lengths of the rows ys of e
RECURSIVE MinOfLens(_, _, _)
MinOfLens(e, x, ys) ==
    IF ys = {} THEN x
    ELSE LET y == CHOOSE y \in ys : TRUE
         IN MinOfLens(e, Min(x, LenOfRow(e, y)), ys \ {y})

PageStep(k) == KeyStepOf(k) /\ E.mode \in {"NORMAL", "INSERT"} /\ E.screen_rows >= 1

\* C20 as stated: with screen_rows >= 1, Page Down in Normal or Insert mode
\* leaves cursor_y = min(|rows|, row_offset + 2*screen_rows - 1), Page Up
\* leaves cursor_y = max(0, row_offset - screen_rows), row_offset being that
\* of the last render; cursor_x is its old value clamped to the length of
\* the resulting row (0 on the row one past the end); rows and dirty stay.
C20_ClampedToResultingRow ==
    [][/\ PageStep(PAGE_DOWN) =>
            /\ E'.cursor_y = PageDownRow(E)
            /\ E'.cursor_x = Min(E.cursor_x, LenOfRow(E, E'.cursor_y))
            /\ E'.rows = E.rows /\ E'.dirty = E.dirty
       /\ PageStep(PAGE_UP) =>
            /\ E'.cursor_y = PageUpRow(E)
            /\ E'.cursor_x = Min(E.cursor_x, LenOfRow(E, E'.cursor_y))
            /\ E'.rows = E.rows /\ E'.dirty = E.dirty]_vars

\* C20: with screen_rows >= 1, Page Down in Normal or Insert mode leaves
\* cursor_y = min(|rows|, row_offset + 2*screen_rows - 1), Page Up leaves
\* cursor_y = max(0, row_offset - screen_rows), row_offset being that of the
\* last render; cursor_x is its old value clamped to the length of every row
\* the screen_rows single steps land on, so it is at most the length of the
\* resulting row (0 on the row one past the end); rows and dirty stay.
C20_PageUpDown ==
    [][/\ PageStep(PAGE_DOWN) =>
            /\ E'.cursor_y = PageDownRow(E)
            /\ E'.cursor_x = MinOfLens(E, E.cursor_x, PageDownSteps(E))
            /\ E'.cursor_x <= LenOfRow(E, E'.cursor_y)
            /\ E'.rows = E.rows /\ E'.dirty = E.dirty
       /\ PageStep(PAGE_UP) =>
            /\ E'.cursor_y = PageUpRow(E)
            /\ E'.cursor_x = MinOfLens(E, E.cursor_x, PageUpSteps(E))
            /\ E'.cursor_x <= LenOfRow(E, E'.cursor_y)
            /\ E'.rows = E.rows /\ E'.dirty = E.dirty]_vars

\* Page Down from column 1 ended on row 3, which has one character, in
\* column 0: the empty row stepped over took the column
C20_Witness ==
    /\ pc = "render"
    /\ lastKey = <<PAGE_DOWN, "NORMAL">>
    /\ E.rendered_x = 1
    /\ E.cursor_y = 3
    /\ Len(E.rows) = 4
    /\ Len(E.rows[4].raw_row) = 1
    /\ E.cursor_x = 0

(***************************************************************************)
(* Forward delete.                                                         *)
(***************************************************************************)
\* raw without its character at index x (from 0)
DeletedAt(raw, x) == SubSeq(raw, 1, x) \o SubSeq(raw, x + 2, Len(raw))

\* the raw rows with row y + 1 appended onto row y and removed
JoinedBelow(raws, y) ==
    [m \in 1..(Len(raws) - 1) |->
        IF m < y + 1 THEN raws[m]
        ELSE IF m = y + 1 THEN raws[y + 1] \o raws[y + 2]
        ELSE raws[m + 1]]

\* C21: Delete in Insert mode never moves the cursor; before the end of a
\* row it removes the character under the cursor; at the end of a row that
\* is not the last it appends the next row and removes it; at the end of
\* the last row or on the row one past the end it changes neither rows, nor
\* dirty, nor the cursor.
C21_ForwardDelete ==
    [][KeyStepOf(DEL_KEY) /\ E.mode = "INSERT" =>
         LET y == E.cursor_y
             x == E.cursor_x
             n == Len(E.rows)
         IN /\ E'.cursor_y = y /\ E'.cursor_x = x
            /\ (y < n /\ x < Len(E.rows[y + 1].raw_row)) =>
                   Raws(E') = [Raws(E) EXCEPT ![y + 1] = DeletedAt(@, x)]
            /\ (y < n - 1 /\ x = Len(E.rows[y + 1].raw_row)) =>
                   Raws(E') = JoinedBelow(Raws(E), y)
            /\ (y = n \/ (y = n - 1 /\ x = Len(E.rows[y + 1].raw_row))) =>
                   E'.rows = E.rows /\ E'.dirty = E.dirty]_vars

(***************************************************************************)
(* Resize.                                                                 *)
(***************************************************************************)
\* the members of E that describe the display
DisplayFields == {"screen_rows", "screen_cols", "rendered_x", "row_offset", "col_offset"}

\* C22: a resize between two steps of the loop changes only screen_rows,
\* screen_cols, rendered_x, row_offset and col_offset: the rows (raw,
\* rendered, highlight), dirty, the cursor, the mode, the accumulators and
\* every other member stay, the loop stays where it is, and with at least
\* one text row and one column the viewport holds the cursor right after it.
C22_ResizeConfined ==
    [][Resize =>
          /\ \A f \in (DOMAIN E) \ DisplayFields : E'[f] = E[f]
          /\ pc' = pc
          /\ (E'.screen_rows >= 1 /\ E'.screen_cols >= 1 => ViewportHolds(E'))]_vars

\* a resize arrived after '1' was inserted and before the loop rendered it:
\* the buffer is modified, the mode is INSERT, and rendered_x is already that
\* of the new cursor column, which only the handler's render can have set
C22_Witness ==
    /\ pc = "render"
    /\ lastKey = <<CH_1, "INSERT">>
    /\ E.dirty
    /\ E.mode = "INSERT"
    /\ E.cursor_y < Len(E.rows)
    /\ E.cursor_x >= 1
    /\ E.rendered_x = editorComputeRenderedX(E.rows[E.cursor_y + 1].raw_row, E.cursor_x)

(***************************************************************************)
(* Saving: the loop with the keys that edit the text and save it, saved    *)
(* recording the rows of the most recent load or successful save.          *)
(***************************************************************************)
\* Insert mode receives '1', Ctrl-J, Enter, Backspace, Delete and Escape
SaveInsertBursts ==
    { <<CH_1>>, <<CH_LF>>, <<CH_CR>>, <<BACKSPACE>>,
      <<ESC, CH_LBRACKET, CH_3, CH_TILDE>>, <<ESC>> }

\* Normal mode receives i : l and j
SaveNormalBursts == { <<CH_i>>, <<CH_COLON>>, <<CH_l>>, <<CH_j>> }

\* Command mode receives w, Enter, Backspace and Escape
SaveCommandBursts == { <<CH_w>>, <<CH_CR>>, <<BACKSPACE>>, <<ESC>> }

\* key c in state e runs editorSave down to E.dirty = false: Enter in
\* COMMAND on the command "w", a file name, and open, ftruncate and write
\* all succeeding
SaveSucceeds(e, c, io) ==
    /\ e.mode = "COMMAND"
    /\ c = CH_CR
    /\ e.command_buf = <<CH_w>>
    /\ e.filename # <<>>
    /\ io.save_ok

InitSave ==
    /\ \E ws \in WinSizes, arg \in Args : E = MainInit(ws, arg)
    /\ pc = "render"
    /\ lastKey = <<>>
    /\ stdin = <<>>
    /\ saved = Raws(E)

\* editorProcessKeypress(), saved following a successful save
KeypressSaving(b, io) ==
    /\ pc = "key"
    /\ stdin = <<>>
    /\ editorReadKeyUsed(b) = Len(b)
    /\ \E c \in {editorReadKey(b)} :
         \E r \in {editorProcessKeypress(E, c, io)} :
            /\ WithinBounds(r.E)
            /\ E' = r.E
            /\ pc' = IF r.exit THEN "exit" ELSE "render"
            /\ lastKey' = <<c, E.mode>>
            /\ saved' = IF SaveSucceeds(E, c, io) THEN Raws(E) ELSE saved
            /\ UNCHANGED stdin

KeypressSavingInsert ==
    E.mode = "INSERT" /\ \E b \in SaveInsertBursts : KeypressSaving(b, NoIO)

KeypressSavingNormal ==
    E.mode = "NORMAL" /\ \E b \in SaveNormalBursts : KeypressSaving(b, NoIO)

KeypressSavingCommand ==
    E.mode = "COMMAND" /\ \E b \in SaveCommandBursts, io \in IOAnswers : KeypressSaving(b, io)

NextSave ==
    Refresh \/ KeypressSavingInsert \/ KeypressSavingNormal \/ KeypressSavingCommand
        \/ Resize

SpecSave == InitSave /\ [][NextSave]_vars

\* C23: whenever dirty is false the raw rows are those of the most recent
\* load or successful save (the empty buffer if there was neither): no keys
\* change the text and leave dirty false.
C23_CleanMeansSaved == ~E.dirty => Raws(E) = saved

\* a save has just succeeded on a text that is neither the empty buffer nor
\* the file as loaded, and the buffer is clean with that text
C23_Witness ==
    /\ pc = "render"
    /\ lastKey = <<CH_CR, "COMMAND">>
    /\ ~E.dirty
    /\ saved = Raws(E)
    /\ saved \notin { <<>>, << <<CH_1>>, <<CH_TAB>> >> }

\* the raw rows editorOpen loads from a file named name holding text
LoadedRaws(name, text) == Raws(editorOpen(E0, name, text))

\* the step is a save that succeeds
SavingStep ==
    /\ E.mode = "COMMAND"
    /\ \E io \in IOAnswers : SaveSucceeds(E, CH_CR, io) /\ KeypressSaving(<<CH_CR>>, io)

\* C24: for every buffer reached by loading a file and typing keys, loading
\* the text a successful save writes (every raw row followed by one newline)
\* gives the same raw rows, as many of them.
C24_SaveLoadRoundTrip ==
    [][SavingStep =>
          LET loaded == LoadedRaws(E.filename, editorRowsToString(E))
          IN Len(loaded) = Len(E.rows) /\ loaded = Raws(E)]_vars

====
